---- MODULE Spec2Model ----
(***************************************************************************)
(* Heinrich TRIZ engine: the Knowledge Store (KnowledgeLoader), the        *)
(* Principle Selector, the Effects Lookup, the Contradiction Identifier,   *)
(* the Adaptation Planner, the Problem Parser, the Concept Generator and   *)
(* the Ollama and Gemini adapters.                                         *)
(* Scores are whole numbers of 1/6000: Pct(70) is 0.7.                     *)
(***************************************************************************)
EXTENDS Integers, Sequences, FiniteSets, TLC

VARIABLES files, cache, reads, kbres, identifier, selector, call, lookup, planner, adapter, repo, threads, log

vars == <<files, cache, reads, kbres, identifier, selector, call, lookup, planner, adapter, repo, threads, log>>

(***************************************************************************)
(* Generic helpers: Python dict and list primitives.                       *)
(***************************************************************************)
EmptyDict == [k \in {} |-> 0]

Put(d, k, v) == [x \in (DOMAIN d) \cup {k} |-> IF x = k THEN v ELSE d[x]]

Get(d, k, default) == IF k \in DOMAIN d THEN d[k] ELSE default

Range(s) == {s[i] : i \in DOMAIN s}

SeqsUpTo(S, n) == UNION {[1..k -> S] : k \in 0..n}

(***************************************************************************)
(* Bounds of the Knowledge Store model.                                    *)
(***************************************************************************)
MaxRows == 2

MaxReads == 2

Loaders == {"loaderA", "loaderB"}

(***************************************************************************)
(* The three knowledge-base files.  A YAML table file is missing,          *)
(* malformed, or holds the entries with the given ids; the matrix CSV is   *)
(* missing or holds rows, possibly followed by a row whose fields do not   *)
(* parse as integers.                                                      *)
(***************************************************************************)
\* Text is a sequence of one-character strings.
LowerChar(ch) ==
    CASE ch = "A" -> "a" [] ch = "B" -> "b" [] ch = "C" -> "c" [] ch = "D" -> "d"
      [] ch = "E" -> "e" [] ch = "F" -> "f" [] ch = "G" -> "g" [] ch = "H" -> "h"
      [] ch = "I" -> "i" [] ch = "J" -> "j" [] ch = "K" -> "k" [] ch = "L" -> "l"
      [] ch = "M" -> "m" [] ch = "N" -> "n" [] ch = "O" -> "o" [] ch = "P" -> "p"
      [] ch = "Q" -> "q" [] ch = "R" -> "r" [] ch = "S" -> "s" [] ch = "T" -> "t"
      [] ch = "U" -> "u" [] ch = "V" -> "v" [] ch = "W" -> "w" [] ch = "X" -> "x"
      [] ch = "Y" -> "y" [] ch = "Z" -> "z" [] OTHER -> ch

\* str.lower()
Lower(s) == [i \in 1..Len(s) |-> LowerChar(s[i])]

\* needle in hay
Contains(needle, hay) ==
    \E i \in 0..(Len(hay) - Len(needle)) : SubSeq(hay, i + 1, i + Len(needle)) = needle

Digit(d) ==
    CASE d = 0 -> "0" [] d = 1 -> "1" [] d = 2 -> "2" [] d = 3 -> "3" [] d = 4 -> "4"
      [] d = 5 -> "5" [] d = 6 -> "6" [] d = 7 -> "7" [] d = 8 -> "8" [] OTHER -> "9"

\* The knowledge-base data: parameter entries (id, name, description) ...
ParamEntry(i, n, d) == [id |-> i, name |-> n, description |-> d]

ParameterListA ==
    << ParamEntry(1, <<"A", "b", "a">>, <<"o", "f", " ", "a", "b", "c", " ", "a", "b">>),
       ParamEntry(2, <<"c", "c", "c">>, <<"b", "b", "b", "b", "-", "a", "c", "a", "b">>) >>

ParameterListB ==
    << ParamEntry(1, <<"c", "a", "b">>, <<>>),
       ParamEntry(2, <<"b", "c", "b", "c">>, <<"t", "h", "e", " ", "A", "A", "A">>),
       ParamEntry(3, <<"a", "b", "c", "a", "b">>, <<"c", "c">>) >>

ParameterLists == {ParameterListA, ParameterListB}

\* ... and principle entries, named P<id>.
PrincipleEntry(i) ==
    [id |-> i, name |-> <<"P", Digit(i \div 10), Digit(i % 10)>>,
     description |-> <<"d", "o", " ", Digit(i % 10)>>]

PrincipleList(ids) == SelectSeq([i \in 1..40 |-> PrincipleEntry(i)], LAMBDA e : e.id \in ids)

PrincipleLists == {PrincipleList(1..40), PrincipleList({2, 15, 35}), PrincipleList({15})}

MatrixRowPool ==
    { [imp |-> 1, wors |-> 2, principles |-> <<15, 2>>],
      [imp |-> 2, wors |-> 1, principles |-> <<35>>],
      [imp |-> 1, wors |-> 3, principles |-> <<15>>],
      [imp |-> 2, wors |-> 2, principles |-> <<41>>] }

YamlFiles(lists) ==
    {[kind |-> "missing", entries |-> <<>>], [kind |-> "malformed", entries |-> <<>>]}
        \cup {[kind |-> "ok", entries |-> s] : s \in lists}

MatrixFiles ==
    {[kind |-> "missing", rows |-> <<>>, bad |-> FALSE]}
        \cup {[kind |-> "ok", rows |-> r, bad |-> b] :
                 r \in SeqsUpTo(MatrixRowPool, MaxRows), b \in BOOLEAN}

FileSystems ==
    [parameters : YamlFiles(ParameterLists),
     principles : YamlFiles(PrincipleLists),
     matrix : MatrixFiles]

\* The ids used by the lookups of the model: one more than any table holds.
LookupIds == 1..4

(***************************************************************************)
(* KnowledgeLoader.__init__: the three cached tables start as None.        *)
(***************************************************************************)
Unset == [loaded |-> FALSE, data |-> EmptyDict]

Cached(d) == [loaded |-> TRUE, data |-> d]

NewLoader == [parameters |-> Unset, principles |-> Unset, contradiction_matrix |-> Unset]

NoReads == [parameters |-> 0, principles |-> 0, matrix |-> 0]

\* A call's outcome: the loader's fields and the read counters after it, and
\* either the returned value or the exception that propagated.
Returned(c, r, v) == [c |-> c, r |-> r, status |-> "returned", exc |-> "", value |-> v]

Raised(c, r, e) == [c |-> c, r |-> r, status |-> "raised", exc |-> e, value |-> EmptyDict]

\* {p['id']: p for p in data[...]}: a later entry replaces an earlier one.
DictById(entries) ==
    [i \in {entries[k].id : k \in DOMAIN entries} |->
        LET last == CHOOSE k \in DOMAIN entries :
                        /\ entries[k].id = i
                        /\ \A j \in DOMAIN entries : entries[j].id = i => j <= k
        IN entries[last]]

\* Variants of the table load: without the "is None" test, and with a missing
\* file read as an empty table.
LoadYamlNoMemo(c, r, field, file) ==
    IF file.kind = "missing" THEN Raised(c, r, "FileNotFoundError")
    ELSE IF file.kind = "malformed"
         THEN Raised(c, [r EXCEPT ![field] = @ + 1], "DataError")
    ELSE LET d == DictById(file.entries)
         IN Returned([c EXCEPT ![field] = Cached(d)], [r EXCEPT ![field] = @ + 1], d)

LoadYamlMissingAsEmpty(c, r, field, file) ==
    IF c[field].loaded THEN Returned(c, r, c[field].data)
    ELSE IF file.kind = "missing" THEN Returned(c, r, EmptyDict)
    ELSE IF file.kind = "malformed"
         THEN Raised(c, [r EXCEPT ![field] = @ + 1], "DataError")
    ELSE LET d == DictById(file.entries)
         IN Returned([c EXCEPT ![field] = Cached(d)], [r EXCEPT ![field] = @ + 1], d)

\* load_39_parameters / load_40_principles, on the loader fields c.
LoadYaml(c, r, field, file) ==
    IF c[field].loaded THEN Returned(c, r, c[field].data)
    ELSE IF file.kind = "missing" THEN Raised(c, r, "FileNotFoundError")
    ELSE IF file.kind = "malformed"
         THEN Raised(c, [r EXCEPT ![field] = @ + 1], "DataError")
    ELSE LET d == DictById(file.entries)
         IN Returned([c EXCEPT ![field] = Cached(d)], [r EXCEPT ![field] = @ + 1], d)

load_39_parameters(c, r, fs) == LoadYaml(c, r, "parameters", fs.parameters)

load_40_principles(c, r, fs) == LoadYaml(c, r, "principles", fs.principles)

\* The body of the row loop: both orderings get the row's principle list.
StoreRowOneWay(matrix, row) == Put(matrix, <<row.imp, row.wors>>, row.principles)

StoreRow(matrix, row) ==
    Put(Put(matrix, <<row.imp, row.wors>>, row.principles),
        <<row.wors, row.imp>>, row.principles)

RECURSIVE BuildMatrix(_, _)
BuildMatrix(matrix, rows) ==


    IF rows = <<>> THEN matrix
    ELSE BuildMatrix(StoreRow(matrix, Head(rows)), Tail(rows))

\* A load that leaves the rows read before the one that does not parse in
\* the loader.
LoadMatrixKeepingRowsRead(c, r, fs) ==
    IF c.contradiction_matrix.loaded THEN Returned(c, r, c.contradiction_matrix.data)
    ELSE IF fs.matrix.kind = "missing" THEN Raised(c, r, "FileNotFoundError")
    ELSE LET m == BuildMatrix(EmptyDict, fs.matrix.rows)
         IN IF fs.matrix.bad
            THEN Raised([c EXCEPT !.contradiction_matrix = Cached(m)],
                        [r EXCEPT !.matrix = @ + 1], "DataError")
            ELSE Returned([c EXCEPT !.contradiction_matrix = Cached(m)],
                          [r EXCEPT !.matrix = @ + 1], m)

load_contradiction_matrix(c, r, fs) ==
    IF c.contradiction_matrix.loaded THEN Returned(c, r, c.contradiction_matrix.data)
    ELSE IF fs.matrix.kind = "missing" THEN Raised(c, r, "FileNotFoundError")
    ELSE IF fs.matrix.bad
         THEN Raised(c, [r EXCEPT !.matrix = @ + 1], "DataError")
    ELSE LET m == BuildMatrix(EmptyDict, fs.matrix.rows)
         IN Returned([c EXCEPT !.contradiction_matrix = Cached(m)],
                     [r EXCEPT !.matrix = @ + 1], m)

\* matrix.get((improving_param, worsening_param), [])
MatrixGet(matrix, a, b) == Get(matrix, <<a, b>>, <<>>)

get_principles_for_contradiction(c, r, fs, a, b) ==
    LET o == load_contradiction_matrix(c, r, fs)
    IN IF o.status = "raised" THEN o ELSE Returned(o.c, o.r, MatrixGet(o.value, a, b))

\* parameters.get(parameter_id): the entries with that id (none: None).
get_parameter_info(c, r, fs, id) ==
    LET o == load_39_parameters(c, r, fs)
    IN IF o.status = "raised" THEN o
       ELSE Returned(o.c, o.r, {o.value[i] : i \in DOMAIN o.value \cap {id}})

get_principle_info(c, r, fs, id) ==
    LET o == load_40_principles(c, r, fs)
    IN IF o.status = "raised" THEN o
       ELSE Returned(o.c, o.r, {o.value[i] : i \in DOMAIN o.value \cap {id}})

\* The loop of search_parameters / search_principles: the ids of the hits.
SearchTable(table, query) ==
    {i \in DOMAIN table :
        \/ Contains(Lower(query), Lower(table[i].name))
        \/ Contains(Lower(query), Lower(table[i].description))}

search_parameters(c, r, fs, query) ==
    LET o == load_39_parameters(c, r, fs)
    IN IF o.status = "raised" THEN o ELSE Returned(o.c, o.r, SearchTable(o.value, query))

search_principles(c, r, fs, query) ==
    LET o == load_40_principles(c, r, fs)
    IN IF o.status = "raised" THEN o ELSE Returned(o.c, o.r, SearchTable(o.value, query))

\* get_all_parameters / get_all_principles: list(table.values()), as ids.
get_all_parameters(c, r, fs) ==
    LET o == load_39_parameters(c, r, fs)
    IN IF o.status = "raised" THEN o ELSE Returned(o.c, o.r, DOMAIN o.value)

get_all_principles(c, r, fs) ==
    LET o == load_40_principles(c, r, fs)
    IN IF o.status = "raised" THEN o ELSE Returned(o.c, o.r, DOMAIN o.value)

MatrixEntriesValidNoPrinciples(matrix, parameters, principles) ==
    \A key \in DOMAIN matrix : key[1] \in DOMAIN parameters /\ key[2] \in DOMAIN parameters

\* The loop of validate_contradiction_matrix over matrix.items().
MatrixEntriesValid(matrix, parameters, principles) ==
    \A key \in DOMAIN matrix :
        /\ key[1] \in DOMAIN parameters
        /\ key[2] \in DOMAIN parameters
        /\ \A i \in DOMAIN matrix[key] : matrix[key][i] \in DOMAIN principles

\* What "except Exception: return False" does with a failed load.
OnLoadErrorRaise(o) == o

OnLoadError(o) == Returned(o.c, o.r, FALSE)

validate_contradiction_matrix(c, r, fs) ==
    LET m == load_contradiction_matrix(c, r, fs)
    IN IF m.status = "raised" THEN OnLoadError(m)
       ELSE LET p == load_39_parameters(m.c, m.r, fs)
            IN IF p.status = "raised" THEN OnLoadError(p)
               ELSE LET q == load_40_principles(p.c, p.r, fs)
                    IN IF q.status = "raised" THEN OnLoadError(q)
                       ELSE Returned(q.c, q.r,
                                     MatrixEntriesValid(m.value, p.value, q.value))

(***************************************************************************)
(* ContradictionIdentifier.__init__ and _build_parameter_keywords.         *)
(***************************************************************************)
WordChars ==
    {"a", "b", "c", "d", "e", "f", "g", "h", "i", "j", "k", "l", "m", "n", "o", "p", "q",
     "r", "s", "t", "u", "v", "w", "x", "y", "z", "A", "B", "C", "D", "E", "F", "G", "H",
     "I", "J", "K", "L", "M", "N", "O", "P", "Q", "R", "S", "T", "U", "V", "W", "X", "Y",
     "Z", "0", "1", "2", "3", "4", "5", "6", "7", "8", "9", "_"}

\* re.findall(r'\b\w+\b', text): the maximal runs of word characters, in order.
RECURSIVE ScanWords(_, _, _, _)
ScanWords(text, i, cur, acc) ==
    LET flushed == IF cur = <<>> THEN acc ELSE Append(acc, cur)
    IN IF i > Len(text) THEN flushed
       ELSE IF text[i] \in WordChars THEN ScanWords(text, i + 1, Append(cur, text[i]), acc)
       ELSE ScanWords(text, i + 1, <<>>, flushed)

FindWords(text) == ScanWords(text, 1, <<>>, <<>>)

stop_words ==
    { <<"o", "f">>, <<"t", "h", "e">>, <<"a", "n", "d">>, <<"o", "r">>, <<"t", "o">>,
      <<"i", "n">>, <<"o", "n">>, <<"a", "t">>, <<"b", "y">>, <<"f", "o", "r">>,
      <<"w", "i", "t", "h">> }

\* The key terms of one parameter: list(set(...)), kept as the set.
KeyTerms(param) ==
    {w \in Range(FindWords(Lower(param.name)))
            \cup Range(FindWords(Lower(param.description))) :
        w \notin stop_words /\ Len(w) > 2}

_build_parameter_keywords(parameters) ==
    LET byid == DictById(parameters) IN [i \in DOMAIN byid |-> KeyTerms(byid[i])]

NoIdentifier == [built |-> FALSE, parameters |-> <<>>, parameter_keywords |-> EmptyDict]

ContradictionIdentifierInit(file) ==
    [built |-> TRUE, parameters |-> file.entries,
     parameter_keywords |-> _build_parameter_keywords(file.entries)]

(***************************************************************************)
(* PrincipleSelector.__init__ and _load_contradiction_matrix: the matrix   *)
(* is the list of known relationships; the matrix file is not opened.      *)
(***************************************************************************)
known_relationships ==
    << [imp |-> 9, wors |-> 19, principles |-> <<15, 2, 35, 18>>],
       [imp |-> 1, wors |-> 14, principles |-> <<1, 8, 15, 40>>],
       [imp |-> 9, wors |-> 28, principles |-> <<28, 32, 35, 13>>],
       [imp |-> 36, wors |-> 27, principles |-> <<1, 13, 22, 35>>],
       [imp |-> 39, wors |-> 27, principles |-> <<2, 25, 35, 13>>],
       [imp |-> 3, wors |-> 14, principles |-> <<1, 8, 14, 15>>] >>

RECURSIVE SelectorMatrixFrom(_, _)
SelectorMatrixFrom(matrix, rels) ==
    IF rels = <<>> THEN matrix
    ELSE LET row == Head(rels)
         IN SelectorMatrixFrom(
                Put(Put(matrix, <<row.imp, row.wors>>, row.principles),
                    <<row.wors, row.imp>>, row.principles),
                Tail(rels))

_load_contradiction_matrix == SelectorMatrixFrom(EmptyDict, known_relationships)

NoSelector == [built |-> FALSE, principles |-> EmptyDict, contradiction_matrix |-> EmptyDict]

PrincipleSelectorInit(file) ==
    [built |-> TRUE, principles |-> DictById(file.entries),
     contradiction_matrix |-> _load_contradiction_matrix]

\* Opening a table file in a constructor: no cache is consulted.
OpenUncached(r, field, file) ==
    IF file.kind = "missing" THEN [r |-> r, status |-> "raised", exc |-> "FileNotFoundError"]
    ELSE IF file.kind = "malformed"
         THEN [r |-> [r EXCEPT ![field] = @ + 1], status |-> "raised", exc |-> "DataError"]
    ELSE [r |-> [r EXCEPT ![field] = @ + 1], status |-> "returned", exc |-> ""]

(***************************************************************************)
(* The Knowledge Store as a state machine.                                 *)
(***************************************************************************)
NoCall == [op |-> "none"]

\* The components not constructed yet.
NoLookup == [built |-> FALSE]

NoPlanner == [built |-> FALSE]

\* No LLM adapter has been constructed.
NoAdapter == [kind |-> "none"]

\* No repository of translations is at hand.
NoRepo == [kind |-> "none"]

\* No concurrent callers.
NoThreads == <<>>

NoResult ==
    [op |-> "none", loader |-> "none", args |-> <<>>, status |-> "returned", exc |-> "",
     value |-> EmptyDict, noread |-> TRUE]

WithinReads(r) == r.parameters <= MaxReads /\ r.principles <= MaxReads /\ r.matrix <= MaxReads

KBCall(l, op, args, o) ==
    /\ WithinReads(o.r)
    /\ cache' = [cache EXCEPT ![l] = o.c]
    /\ reads' = o.r
    /\ kbres' = [op |-> op, loader |-> l, args |-> args, status |-> o.status,
                 exc |-> o.exc, value |-> o.value, noread |-> o.r = reads]
    /\ UNCHANGED <<files, identifier, selector, call, lookup, planner, adapter, repo, threads, log>>

Load39Parameters(l) ==
    /\ l \in Loaders
    /\ KBCall(l, "load_39_parameters", <<>>, load_39_parameters(cache[l], reads, files))

Load40Principles(l) ==
    /\ l \in Loaders
    /\ KBCall(l, "load_40_principles", <<>>, load_40_principles(cache[l], reads, files))

LoadContradictionMatrix(l) ==
    /\ l \in Loaders
    /\ KBCall(l, "load_contradiction_matrix", <<>>,
              load_contradiction_matrix(cache[l], reads, files))

GetPrinciplesForContradiction(l) ==
    /\ l \in Loaders
    /\ \E a \in LookupIds, b \in LookupIds :
           KBCall(l, "get_principles_for_contradiction", <<a, b>>,
                  get_principles_for_contradiction(cache[l], reads, files, a, b))

GetParameterInfo(l) ==
    /\ l \in Loaders
    /\ \E id \in LookupIds :
           KBCall(l, "get_parameter_info", <<id>>, get_parameter_info(cache[l], reads, files, id))

GetPrincipleInfo(l) ==
    /\ l \in Loaders
    /\ \E id \in {2, 15, 41} :
           KBCall(l, "get_principle_info", <<id>>, get_principle_info(cache[l], reads, files, id))

SearchQueries == { <<"A", "B">>, <<"p", "1">>, <<"z">> }

SearchParameters(l) ==
    /\ l \in Loaders
    /\ \E q \in SearchQueries :
           KBCall(l, "search_parameters", q, search_parameters(cache[l], reads, files, q))

SearchPrinciples(l) ==
    /\ l \in Loaders
    /\ \E q \in SearchQueries :
           KBCall(l, "search_principles", q, search_principles(cache[l], reads, files, q))

GetAllParameters(l) ==
    /\ l \in Loaders
    /\ KBCall(l, "get_all_parameters", <<>>, get_all_parameters(cache[l], reads, files))

GetAllPrinciples(l) ==
    /\ l \in Loaders
    /\ KBCall(l, "get_all_principles", <<>>, get_all_principles(cache[l], reads, files))

ValidateContradictionMatrix(l) ==
    /\ l \in Loaders
    /\ KBCall(l, "validate_contradiction_matrix", <<>>,
              validate_contradiction_matrix(cache[l], reads, files))

NewContradictionIdentifier ==
    LET o == OpenUncached(reads, "parameters", files.parameters)
    IN /\ WithinReads(o.r)
       /\ reads' = o.r
       /\ identifier' = IF o.status = "returned"
                        THEN ContradictionIdentifierInit(files.parameters) ELSE identifier
       /\ kbres' = [op |-> "ContradictionIdentifier", loader |-> "none", args |-> <<>>,
                    status |-> o.status, exc |-> o.exc, value |-> EmptyDict,
                    noread |-> o.r = reads]
       /\ UNCHANGED <<files, cache, selector, call, lookup, planner, adapter, repo, threads, log>>

NewPrincipleSelector ==
    LET o == OpenUncached(reads, "principles", files.principles)
    IN /\ WithinReads(o.r)
       /\ reads' = o.r
       /\ selector' = IF o.status = "returned"
                      THEN PrincipleSelectorInit(files.principles) ELSE selector
       /\ kbres' = [op |-> "PrincipleSelector", loader |-> "none", args |-> <<>>,
                    status |-> o.status, exc |-> o.exc, value |-> EmptyDict,
                    noread |-> o.r = reads]
       /\ UNCHANGED <<files, cache, identifier, call, lookup, planner, adapter, repo, threads, log>>

InitWith(fileSystems) ==
    /\ files \in fileSystems
    /\ cache = [l \in Loaders |-> NewLoader]
    /\ reads = NoReads
    /\ kbres = NoResult
    /\ identifier = NoIdentifier
    /\ selector = NoSelector
    /\ call = NoCall
    /\ lookup = NoLookup
    /\ planner = NoPlanner
    /\ adapter = NoAdapter
    /\ repo = NoRepo
    /\ threads = NoThreads
    /\ log = NoCall

OkFile(lists) == CHOOSE f \in YamlFiles(lists) : f.kind = "ok"

\* The matrix file alone varies: loading it and looking pairs up.
MatrixFileSystems ==
    [parameters : {OkFile({ParameterListA})},
     principles : {OkFile({PrincipleList({2, 15, 35})})},
     matrix : MatrixFiles]

NextMatrix ==
    \/ LoadContradictionMatrix("loaderA")
    \/ GetPrinciplesForContradiction("loaderA")
    \/ NewPrincipleSelector

SpecMatrix == InitWith(MatrixFileSystems) /\ [][NextMatrix]_vars

\* Every combination of the three files: validation after any loads.
NextValidate ==
    \/ Load39Parameters("loaderA")
    \/ Load40Principles("loaderA")
    \/ LoadContradictionMatrix("loaderA")
    \/ ValidateContradictionMatrix("loaderA")

SpecValidate == InitWith(FileSystems) /\ [][NextValidate]_vars

\* Each file present, malformed or missing: every operation of one loader.
StoreFileSystems ==
    [parameters : YamlFiles({ParameterListA}),
     principles : YamlFiles({PrincipleList({2, 15, 35})}),
     matrix : {f \in MatrixFiles : Len(f.rows) = 0 \/ (Len(f.rows) = 1 /\ ~f.bad)}]

NextStore ==
    \/ Load39Parameters("loaderA")
    \/ Load40Principles("loaderA")
    \/ LoadContradictionMatrix("loaderA")
    \/ GetPrinciplesForContradiction("loaderA")
    \/ GetParameterInfo("loaderA")
    \/ GetPrincipleInfo("loaderA")
    \/ SearchParameters("loaderA")
    \/ SearchPrinciples("loaderA")
    \/ GetAllParameters("loaderA")
    \/ GetAllPrinciples("loaderA")
    \/ ValidateContradictionMatrix("loaderA")

SpecStore == InitWith(StoreFileSystems) /\ [][NextStore]_vars

\* Two loaders and the two pipeline constructors of one process.
NextMemo ==
    \/ \E l \in Loaders : Load39Parameters(l)
    \/ \E l \in Loaders : Load40Principles(l)
    \/ \E l \in Loaders : LoadContradictionMatrix(l)
    \/ NewContradictionIdentifier
    \/ NewPrincipleSelector

SpecMemo == InitWith(StoreFileSystems) /\ [][NextMemo]_vars

(***************************************************************************)
(* Several callers inside load_* of one loader at a time.  A caller tests  *)
(* the cached attribute, reads the file into a table of its own, assigns   *)
(* the table to the attribute and returns the attribute; another caller    *)
(* may run between any two of these steps.  threads holds, for each        *)
(* caller, where it is, the table it is building, the rows it has still to *)
(* read and what its last call gave.                                       *)
(***************************************************************************)
Threads == {"t1", "t2"}

TableFields == {"parameters", "principles", "contradiction_matrix"}

SharedLoader == "loaderA"

NoOutcome == [status |-> "none", exc |-> "", field |-> "none", value |-> EmptyDict]

IdleThread ==
    [pc |-> "idle", field |-> "none", table |-> EmptyDict, rows |-> <<>>,
     outcome |-> NoOutcome]

\* The read counter of a table's file.
ReadsOf(field) == IF field = "contradiction_matrix" THEN "matrix" ELSE field

\* A row loop that stores each row in the loader's own table.
ReadRowIntoLoader(c, matrix, row) ==
    [c |-> [c EXCEPT !.contradiction_matrix = Cached(StoreRow(matrix, row))],
     matrix |-> StoreRow(matrix, row)]

FileOf(fs, field) == fs[ReadsOf(field)]

\* One pass of the row loop of load_contradiction_matrix: the caller's own
\* matrix gets the row; the loader is not touched.
ReadRow(c, matrix, row) == [c |-> c, matrix |-> StoreRow(matrix, row)]

\* A caller enters load_39_parameters, load_40_principles or
\* load_contradiction_matrix.
Enter(t) ==
    /\ threads[t].pc = "idle"
    /\ \E field \in TableFields :
          threads' = [threads EXCEPT ![t] =
                         [pc |-> "test", field |-> field, table |-> EmptyDict,
                          rows |-> <<>>, outcome |-> NoOutcome]]
    /\ UNCHANGED <<files, cache, reads, kbres, identifier, selector, call, lookup, planner, adapter, repo, log>>

\* "if self.<field> is None"
TestCached(t) ==
    /\ threads[t].pc = "test"
    /\ threads' = [threads EXCEPT ![t].pc =
                      IF cache[SharedLoader][threads[t].field].loaded THEN "return"
                      ELSE "open"]
    /\ UNCHANGED <<files, cache, reads, kbres, identifier, selector, call, lookup, planner, adapter, repo, log>>

\* open(...) and, for a YAML table, yaml.safe_load and the dict
\* comprehension; for the matrix, the DictReader is set up.
OpenFile(t) ==
    LET field == threads[t].field
        file == FileOf(files, field)
        raised(exc) ==
            [pc |-> "idle", field |-> "none", table |-> EmptyDict, rows |-> <<>>,
             outcome |-> [status |-> "raised", exc |-> exc, field |-> field,
                          value |-> EmptyDict]]
    IN /\ threads[t].pc = "open"
       /\ IF file.kind = "missing"
          THEN /\ threads' = [threads EXCEPT ![t] = raised("FileNotFoundError")]
               /\ reads' = reads
          ELSE /\ reads[ReadsOf(field)] < MaxReads
               /\ reads' = [reads EXCEPT ![ReadsOf(field)] = @ + 1]
               /\ threads' = [threads EXCEPT ![t] =
                      IF field = "contradiction_matrix"
                      THEN [@ EXCEPT !.pc = "rows", !.rows = file.rows]
                      ELSE IF file.kind = "malformed" THEN raised("DataError")
                      ELSE [@ EXCEPT !.pc = "assign", !.table = DictById(file.entries)]]
       /\ UNCHANGED <<files, cache, kbres, identifier, selector, call, lookup, planner, adapter, repo, log>>

\* One row of the matrix file, or its end.  In a file with a row that does
\* not parse, that row may be the next one, and is at the latest the last.
NextRow(t) ==
    LET failed ==
            [pc |-> "idle", field |-> "none", table |-> EmptyDict, rows |-> <<>>,
             outcome |-> [status |-> "raised", exc |-> "DataError",
                          field |-> "contradiction_matrix", value |-> EmptyDict]]
    IN /\ threads[t].pc = "rows"
       /\ \/ /\ threads[t].rows # <<>>
             /\ LET o == ReadRow(cache[SharedLoader], threads[t].table,
                                 Head(threads[t].rows))
                IN /\ threads' = [threads EXCEPT ![t].table = o.matrix,
                                                 ![t].rows = Tail(threads[t].rows)]
                   /\ cache' = [cache EXCEPT ![SharedLoader] = o.c]
          \/ /\ files.matrix.bad
             /\ threads' = [threads EXCEPT ![t] = failed]
             /\ cache' = cache
          \/ /\ threads[t].rows = <<>>
             /\ ~files.matrix.bad
             /\ threads' = [threads EXCEPT ![t].pc = "assign"]
             /\ cache' = cache
       /\ UNCHANGED <<files, reads, kbres, identifier, selector, call, lookup, planner, adapter, repo, log>>

\* "self.<field> = <table>"
AssignTable(t) ==
    /\ threads[t].pc = "assign"
    /\ cache' = [cache EXCEPT ![SharedLoader][threads[t].field] = Cached(threads[t].table)]
    /\ threads' = [threads EXCEPT ![t].pc = "return"]
    /\ UNCHANGED <<files, reads, kbres, identifier, selector, call, lookup, planner, adapter, repo, log>>

\* "return self.<field>"
ReturnTable(t) ==
    /\ threads[t].pc = "return"
    /\ threads' = [threads EXCEPT ![t] =
           [pc |-> "idle", field |-> "none", table |-> EmptyDict, rows |-> <<>>,
            outcome |-> [status |-> "returned", exc |-> "",
                         field |-> threads[t].field,
                         value |-> cache[SharedLoader][threads[t].field].data]]]
    /\ UNCHANGED <<files, cache, reads, kbres, identifier, selector, call, lookup, planner, adapter, repo, log>>

ConcurrentFileSystems ==
    [parameters : YamlFiles({ParameterListA}),
     principles : {OkFile({PrincipleList({15})})},
     matrix : {f \in MatrixFiles :
                  \A i \in DOMAIN f.rows : f.rows[i].imp = 1}]

InitConcurrent ==
    /\ files \in ConcurrentFileSystems
    /\ cache = [l \in Loaders |-> NewLoader]
    /\ reads = NoReads
    /\ kbres = NoResult
    /\ identifier = NoIdentifier
    /\ selector = NoSelector
    /\ call = NoCall
    /\ lookup = NoLookup
    /\ planner = NoPlanner
    /\ adapter = NoAdapter
    /\ repo = NoRepo
    /\ threads = [t \in Threads |-> IdleThread]
    /\ log = NoCall

NextConcurrent ==
    \/ \E t \in Threads : Enter(t)
    \/ \E t \in Threads : TestCached(t)
    \/ \E t \in Threads : OpenFile(t)
    \/ \E t \in Threads : NextRow(t)
    \/ \E t \in Threads : AssignTable(t)
    \/ \E t \in Threads : ReturnTable(t)

SpecConcurrent == InitConcurrent /\ [][NextConcurrent]_vars

(***************************************************************************)
(* A table file that is missing or does not parse is put right between two *)
(* loads: the loader is the same object, the file another.                 *)
(***************************************************************************)
ValidFile(fs, field) ==
    IF field = "contradiction_matrix" THEN fs.matrix.kind = "ok" /\ ~fs.matrix.bad
    ELSE fs[field].kind = "ok"

RepairedMatrixRows == << [imp |-> 1, wors |-> 2, principles |-> <<15, 2>>] >>

RepairFile ==
    /\ \E field \in TableFields :
          /\ ~ValidFile(files, field)
          /\ files' =
                IF field = "contradiction_matrix"
                THEN [files EXCEPT !.matrix =
                         [kind |-> "ok",
                          rows |-> IF @.kind = "missing" THEN RepairedMatrixRows ELSE @.rows,
                          bad |-> FALSE]]
                ELSE [files EXCEPT ![field] =
                         OkFile({IF field = "parameters" THEN ParameterListA
                                 ELSE PrincipleList({15})})]
          /\ log' = [op |-> "repair", field |-> field, was |-> FileOf(files, field).kind]
    /\ UNCHANGED <<cache, reads, kbres, identifier, selector, call, lookup, planner, adapter, repo, threads>>

RepairFileSystems ==
    [parameters : YamlFiles({ParameterListA}),
     principles : YamlFiles({PrincipleList({15})}),
     matrix : {f \in MatrixFiles :
                  \A i \in DOMAIN f.rows : f.rows[i].imp = 1}]

NextRepair ==
    \/ Load39Parameters("loaderA")
    \/ Load40Principles("loaderA")
    \/ LoadContradictionMatrix("loaderA")
    \/ RepairFile

SpecRepair == InitWith(RepairFileSystems) /\ [][NextRepair]_vars

(***************************************************************************)
(* The effects catalog of EffectsLookup._load_effects_database.            *)
(***************************************************************************)
EffectIds ==
    {"thermal_expansion", "shape_memory", "piezoelectric", "electrochromic",
     "superconductivity", "aerogel", "sonoluminescence", "capillary_action",
     "thermoelectric", "magnetorheological"}

related_principles ==
    [e \in EffectIds |->
        CASE e = "thermal_expansion" -> <<37, 15, 35>>
          [] e = "shape_memory" -> <<35, 15, 25>>
          [] e = "piezoelectric" -> <<15, 18, 23>>
          [] e = "electrochromic" -> <<32, 35, 16>>
          [] e = "superconductivity" -> <<36, 2, 12>>
          [] e = "aerogel" -> <<31, 8, 40>>
          [] e = "sonoluminescence" -> <<18, 31, 16>>
          [] e = "capillary_action" -> <<31, 17, 29>>
          [] e = "thermoelectric" -> <<22, 23, 35>>
          [] OTHER -> <<15, 35, 16>>]

(***************************************************************************)
(* Knowledge Store claims.                                                 *)
(***************************************************************************)
LoadedMatrix(l) == cache[l].contradiction_matrix.data

LoadedParameters(l) == cache[l].parameters.data

LoadedPrinciples(l) == cache[l].principles.data

AllLoaded(l) ==
    /\ cache[l].contradiction_matrix.loaded
    /\ cache[l].parameters.loaded
    /\ cache[l].principles.loaded

RowsFor(a, b) ==
    {i \in DOMAIN files.matrix.rows :
        \/ files.matrix.rows[i].imp = a /\ files.matrix.rows[i].wors = b
        \/ files.matrix.rows[i].imp = b /\ files.matrix.rows[i].wors = a}

\* C1: once a loader holds the matrix, the list looked up for (a, b) is the
\* list looked up for (b, a), a pair no row of the file names gives the empty
\* list both ways, a lookup returns (no error) the list of the reversed pair,
\* and the selector's built-in matrix is symmetric too.
C1_LookupSymmetric ==
    /\ \A l \in Loaders :
          cache[l].contradiction_matrix.loaded =>
              \A a \in LookupIds, b \in LookupIds :
                  /\ MatrixGet(LoadedMatrix(l), a, b) = MatrixGet(LoadedMatrix(l), b, a)
                  /\ RowsFor(a, b) = {} => MatrixGet(LoadedMatrix(l), a, b) = <<>>
    /\ (kbres.op = "get_principles_for_contradiction"
            /\ cache[kbres.loader].contradiction_matrix.loaded) =>
          /\ kbres.status = "returned"
          /\ kbres.value = MatrixGet(LoadedMatrix(kbres.loader), kbres.args[2], kbres.args[1])
    /\ selector.built =>
          \A a \in 1..39, b \in 1..39 :
              MatrixGet(selector.contradiction_matrix, a, b)
                  = MatrixGet(selector.contradiction_matrix, b, a)

\* The file lists (1, 2) and (2, 1) as separate rows with different lists,
\* and (1, 2) has been looked up.
C1_Witness ==
    /\ \E i, j \in DOMAIN files.matrix.rows :
          /\ files.matrix.rows[i].imp = 1 /\ files.matrix.rows[i].wors = 2
          /\ files.matrix.rows[j].imp = 2 /\ files.matrix.rows[j].wors = 1
          /\ files.matrix.rows[i].principles # files.matrix.rows[j].principles
    /\ kbres.op = "get_principles_for_contradiction"
    /\ kbres.args = <<1, 2>>
    /\ kbres.status = "returned"
    /\ kbres.value # <<>>

KeysValid(l) ==
    \A key \in DOMAIN LoadedMatrix(l) :
        key[1] \in DOMAIN LoadedParameters(l) /\ key[2] \in DOMAIN LoadedParameters(l)

EntriesValid(l) ==
    \A key \in DOMAIN LoadedMatrix(l) :
        \A p \in Range(LoadedMatrix(l)[key]) : p \in DOMAIN LoadedPrinciples(l)

EffectsValid(l) ==
    \A e \in EffectIds : \A p \in Range(related_principles[e]) : p \in DOMAIN LoadedPrinciples(l)

\* C5 as stated: validation returns true iff matrix keys, matrix entries and
\* the effects' related principles all reference existing ids.
C5_ValidateIffAllThree ==
    (kbres.op = "validate_contradiction_matrix" /\ AllLoaded(kbres.loader)) =>
        (kbres.value = TRUE <=>
            KeysValid(kbres.loader) /\ EntriesValid(kbres.loader) /\ EffectsValid(kbres.loader))

\* C5 (amended): validation returns true iff the three tables load and every
\* matrix key names existing parameters and every matrix entry names existing
\* principles; the effects catalog is not examined.
C5_ValidateIffMatrixRefs ==
    kbres.op = "validate_contradiction_matrix" =>
        /\ kbres.status = "returned"
        /\ kbres.value = TRUE <=>
              AllLoaded(kbres.loader) /\ KeysValid(kbres.loader) /\ EntriesValid(kbres.loader)

\* Validation returned true although an effect names a principle the table lacks.
C5_Witness ==
    /\ kbres.op = "validate_contradiction_matrix"
    /\ kbres.value = TRUE
    /\ LoadedMatrix(kbres.loader) # EmptyDict
    /\ ~EffectsValid(kbres.loader)

\* C6: a validation step never raises, returns a boolean, returns false when
\* the loaded tables leave a matrix reference dangling, and changes no table
\* that was loaded before the call.
C6_ValidateNeverRaises ==
    [][kbres'.op = "validate_contradiction_matrix" =>
          /\ kbres'.status = "returned"
          /\ kbres'.value \in BOOLEAN
          /\ (\E l \in Loaders :
                  l = kbres'.loader /\ AllLoaded(l)' /\ ~(KeysValid(l) /\ EntriesValid(l))')
                => kbres'.value = FALSE
          /\ \A l \in Loaders :
                /\ cache[l].parameters.loaded => cache'[l].parameters = cache[l].parameters
                /\ cache[l].principles.loaded => cache'[l].principles = cache[l].principles
                /\ cache[l].contradiction_matrix.loaded =>
                      cache'[l].contradiction_matrix = cache[l].contradiction_matrix]_vars

\* Validation answered false for loaded tables with a dangling reference, and
\* for a file that could not be read.
C6_Witness ==
    /\ kbres.op = "validate_contradiction_matrix"
    /\ kbres.value = FALSE
    /\ \/ AllLoaded(kbres.loader) /\ ~EntriesValid(kbres.loader)
       \/ files.parameters.kind = "malformed" /\ cache[kbres.loader].contradiction_matrix.loaded

ParameterOps ==
    {"load_39_parameters", "get_parameter_info", "search_parameters", "get_all_parameters"}

PrincipleOps ==
    {"load_40_principles", "get_principle_info", "search_principles", "get_all_principles"}

MatrixOps == {"load_contradiction_matrix", "get_principles_for_contradiction"}

\* The operation of kbres had to read a file that is missing.
NeedsMissingFile ==
    \/ /\ kbres.op \in ParameterOps \cup {"validate_contradiction_matrix"}
       /\ ~cache[kbres.loader].parameters.loaded
       /\ files.parameters.kind = "missing"
    \/ /\ kbres.op \in PrincipleOps \cup {"validate_contradiction_matrix"}
       /\ ~cache[kbres.loader].principles.loaded
       /\ files.principles.kind = "missing"
    \/ /\ kbres.op \in MatrixOps \cup {"validate_contradiction_matrix"}
       /\ ~cache[kbres.loader].contradiction_matrix.loaded
       /\ files.matrix.kind = "missing"

\* C7 as stated: an operation that needs a missing file raises.
C7_MissingFileAlwaysRaises == NeedsMissingFile => kbres.status = "raised"

\* C7 (amended): a load_, get_ or search_ operation that needs a missing file
\* raises FileNotFoundError, which no present file causes; validation returns
\* false instead, as it does for malformed data.
C7_MissingFileRaisesExceptValidate ==
    /\ (NeedsMissingFile /\ kbres.op # "validate_contradiction_matrix") =>
          kbres.status = "raised" /\ kbres.exc = "FileNotFoundError"
    /\ (NeedsMissingFile /\ kbres.op = "validate_contradiction_matrix") =>
          kbres.status = "returned" /\ kbres.value = FALSE
    /\ kbres.exc = "FileNotFoundError" => NeedsMissingFile

\* A search met a missing parameters file.
C7_Witness ==
    /\ kbres.op = "search_parameters"
    /\ files.parameters.kind = "missing"
    /\ kbres.exc = "FileNotFoundError"

FileIsValid(t) ==
    IF t = "matrix" THEN files.matrix.kind = "ok" /\ ~files.matrix.bad ELSE files[t].kind = "ok"

LoadOpOf(field) ==
    CASE field = "parameters" -> "load_39_parameters"
      [] field = "principles" -> "load_40_principles"
      [] OTHER -> "load_contradiction_matrix"

Pct(n) == n * 60

One == Pct(100)

Min(a, b) == IF a <= b THEN a ELSE b

Max(a, b) == IF a >= b THEN a ELSE b

\* list.sort(key=lambda x: x.<key>, reverse=True): stable, equal scores keep
\* their order.
RECURSIVE InsertByScore(_, _, _)
InsertByScore(sorted, x, key) ==
    IF sorted = <<>> THEN <<x>>
    ELSE IF Head(sorted)[key] >= x[key]
         THEN <<Head(sorted)>> \o InsertByScore(Tail(sorted), x, key)
         ELSE <<x>> \o sorted

RECURSIVE SortDescending(_, _)
SortDescending(list, key) ==
    IF list = <<>> THEN <<>>
    ELSE InsertByScore(SortDescending(SubSeq(list, 1, Len(list) - 1), key),
                       list[Len(list)], key)

(***************************************************************************)
(* PrincipleSelector.select_principles.                                    *)
(***************************************************************************)
physical_params == {1, 2, 3, 4, 5, 6, 7, 8, 9, 17}

_is_physical_contradiction(param1, param2) ==
    param1 \in physical_params /\ param2 \in physical_params

_is_technical_contradiction(param1, param2) == ~_is_physical_contradiction(param1, param2)

_heuristic_principle_selection(improving_param, worsening_param) ==
    IF _is_physical_contradiction(improving_param, worsening_param) THEN <<1, 2, 3, 7>>
    ELSE IF _is_technical_contradiction(improving_param, worsening_param)
         THEN <<15, 35, 36, 16>>
    ELSE <<13, 1, 8, 15>>

universal_principles == {1, 8, 13, 15, 35}

RelevanceUncapped(sel, principle_id, improving_param, worsening_param) ==
    LET base == IF <<improving_param, worsening_param>> \in DOMAIN sel.contradiction_matrix
                THEN Pct(80) ELSE Pct(40)
        universal == IF principle_id \in universal_principles THEN base + Pct(10) ELSE base
    IN IF improving_param = 9 /\ principle_id \in {15, 18, 28}
       THEN universal + Pct(15) ELSE universal

_calculate_relevance_score(sel, principle_id, improving_param, worsening_param) ==
    Min(RelevanceUncapped(sel, principle_id, improving_param, worsening_param), Pct(100))

\* _generate_reasoning reads self.parameters_data, an attribute that
\* PrincipleSelector.__init__ never sets: the read raises AttributeError.
\* The attributes of the object are the fields of the record.
_generate_reasoning(sel, principle_id, improving_param, worsening_param) ==
    IF "parameters_data" \notin DOMAIN sel
    THEN [status |-> "raised", exc |-> "AttributeError", text |-> "none"]
    ELSE IF ~(\E i \in DOMAIN sel.parameters_data :
                 sel.parameters_data[i].id = improving_param)
            \/ ~(\E i \in DOMAIN sel.parameters_data :
                    sel.parameters_data[i].id = worsening_param)
         THEN [status |-> "raised", exc |-> "StopIteration", text |-> "none"]
    ELSE [status |-> "returned", exc |-> "",
          text |-> CASE principle_id = 15 -> "dynamic"
                     [] principle_id = 1 -> "independent parts"
                     [] principle_id = 2 -> "separating"
                     [] OTHER -> "generic"]

\* The loop over principle_ids; relevance_score is the local of the last
\* principle scored, there when the loop ends or raises.
RECURSIVE BuildRecommendations(_, _, _, _, _, _)
BuildRecommendations(sel, ids, improving_param, worsening_param, recs, last) ==
    IF ids = <<>>
    THEN [status |-> "returned", exc |-> "", recommendations |-> recs, relevance_score |-> last]
    ELSE IF Head(ids) \notin DOMAIN sel.principles
         THEN BuildRecommendations(sel, Tail(ids), improving_param, worsening_param, recs, last)
    ELSE LET score == _calculate_relevance_score(sel, Head(ids), improving_param,
                                                 worsening_param)
             reasoning == _generate_reasoning(sel, Head(ids), improving_param,
                                              worsening_param)
         IN IF reasoning.status = "raised"
            THEN [status |-> "raised", exc |-> reasoning.exc, recommendations |-> recs,
                  relevance_score |-> <<score>>]
            ELSE BuildRecommendations(
                     sel, Tail(ids), improving_param, worsening_param,
                     Append(recs, [principle_id |-> Head(ids), relevance_score |-> score,
                                   reasoning |-> reasoning.text]),
                     <<score>>)

primary_threshold == 4200

select_principles(sel, improving_param, worsening_param) ==
    LET matrix_key == <<improving_param, worsening_param>>
        principle_ids ==
            IF matrix_key \in DOMAIN sel.contradiction_matrix
            THEN sel.contradiction_matrix[matrix_key]
            ELSE _heuristic_principle_selection(improving_param, worsening_param)
        built == BuildRecommendations(sel, principle_ids, improving_param, worsening_param,
                                      <<>>, <<>>)
        recommendations == SortDescending(built.recommendations, "relevance_score")
    IN IF built.status = "raised"
       THEN [status |-> "raised", exc |-> built.exc, relevance_score |-> built.relevance_score,
             recommendations |-> <<>>, primary_principles |-> <<>>,
             supporting_principles |-> <<>>, matrix_source |-> "none"]
       ELSE [status |-> "returned", exc |-> "", relevance_score |-> built.relevance_score,
             recommendations |-> recommendations,
             primary_principles |->
                 SelectSeq(recommendations, LAMBDA r : r.relevance_score >= primary_threshold),
             supporting_principles |->
                 SelectSeq(recommendations, LAMBDA r : r.relevance_score < primary_threshold),
             matrix_source |-> IF matrix_key \in DOMAIN sel.contradiction_matrix
                               THEN "contradiction_matrix" ELSE "heuristic"]

(***************************************************************************)
(* EffectsLookup.                                                          *)
(***************************************************************************)
\* The catalog in the order of the effects_data dict.
effects_database ==
    << "thermal_expansion", "shape_memory", "piezoelectric", "electrochromic",
       "superconductivity", "aerogel", "sonoluminescence", "capillary_action",
       "thermoelectric", "magnetorheological" >>

\* effect.applications and effect.technical_domains, as text.
applications ==
    [e \in EffectIds |->
        CASE e = "thermal_expansion" ->
               << <<"B", "i", "-", "m", "e", "t", "a", "l", " ", "s", "t", "r", "i", "p", "s", " ", "i", "n", " ", "t", "h", "e", "r", "m", "o", "s", "t", "a", "t", "s">>,
                  <<"E", "x", "p", "a", "n", "s", "i", "o", "n", " ", "j", "o", "i", "n", "t", "s", " ", "i", "n", " ", "b", "r", "i", "d", "g", "e", "s">>,
                  <<"S", "h", "r", "i", "n", "k", "-", "f", "i", "t", " ", "a", "s", "s", "e", "m", "b", "l", "y">> >>
          [] e = "shape_memory" ->
               << <<"S", "h", "a", "p", "e", " ", "m", "e", "m", "o", "r", "y", " ", "s", "t", "e", "n", "t", "s">>,
                  <<"S", "e", "l", "f", "-", "d", "e", "p", "l", "o", "y", "i", "n", "g", " ", "s", "t", "r", "u", "c", "t", "u", "r", "e", "s">>,
                  <<"T", "e", "m", "p", "e", "r", "a", "t", "u", "r", "e", "-", "a", "c", "t", "i", "v", "a", "t", "e", "d", " ", "f", "a", "s", "t", "e", "n", "e", "r", "s">> >>
          [] e = "piezoelectric" ->
               << <<"Q", "u", "a", "r", "t", "z", " ", "w", "a", "t", "c", "h", "e", "s">>,
                  <<"U", "l", "t", "r", "a", "s", "o", "n", "i", "c", " ", "t", "r", "a", "n", "s", "d", "u", "c", "e", "r", "s">>,
                  <<"E", "n", "e", "r", "g", "y", " ", "h", "a", "r", "v", "e", "s", "t", "i", "n", "g", " ", "f", "r", "o", "m", " ", "v", "i", "b", "r", "a", "t", "i", "o", "n">> >>
          [] e = "electrochromic" ->
               << <<"S", "m", "a", "r", "t", " ", "w", "i", "n", "d", "o", "w", "s">>,
                  <<"A", "n", "t", "i", "-", "g", "l", "a", "r", "e", " ", "m", "i", "r", "r", "o", "r", "s">>,
                  <<"D", "i", "s", "p", "l", "a", "y", " ", "t", "e", "c", "h", "n", "o", "l", "o", "g", "i", "e", "s">> >>
          [] e = "superconductivity" ->
               << <<"M", "R", "I", " ", "m", "a", "c", "h", "i", "n", "e", "s">>,
                  <<"M", "a", "g", "l", "e", "v", " ", "t", "r", "a", "i", "n", "s">>,
                  <<"P", "o", "w", "e", "r", " ", "t", "r", "a", "n", "s", "m", "i", "s", "s", "i", "o", "n">> >>
          [] e = "aerogel" ->
               << <<"T", "h", "e", "r", "m", "a", "l", " ", "i", "n", "s", "u", "l", "a", "t", "i", "o", "n">>,
                  <<"A", "c", "o", "u", "s", "t", "i", "c", " ", "d", "a", "m", "p", "i", "n", "g">>,
                  <<"L", "i", "g", "h", "t", "w", "e", "i", "g", "h", "t", " ", "s", "t", "r", "u", "c", "t", "u", "r", "e", "s">> >>
          [] e = "sonoluminescence" ->
               << <<"S", "o", "n", "o", "c", "h", "e", "m", "i", "s", "t", "r", "y">>,
                  <<"M", "e", "d", "i", "c", "a", "l", " ", "i", "m", "a", "g", "i", "n", "g">>,
                  <<"C", "l", "e", "a", "n", "i", "n", "g", " ", "t", "e", "c", "h", "n", "o", "l", "o", "g", "i", "e", "s">> >>
          [] e = "capillary_action" ->
               << <<"W", "i", "c", "k", " ", "i", "n", " ", "c", "a", "n", "d", "l", "e", "s">>,
                  <<"P", "l", "a", "n", "t", " ", "r", "o", "o", "t", " ", "s", "y", "s", "t", "e", "m", "s">>,
                  <<"P", "o", "r", "o", "u", "s", " ", "m", "e", "d", "i", "a", " ", "f", "l", "o", "w">> >>
          [] e = "thermoelectric" ->
               << <<"W", "a", "s", "t", "e", " ", "h", "e", "a", "t", " ", "r", "e", "c", "o", "v", "e", "r", "y">>,
                  <<"T", "e", "m", "p", "e", "r", "a", "t", "u", "r", "e", " ", "s", "e", "n", "s", "o", "r", "s">>,
                  <<"P", "o", "r", "t", "a", "b", "l", "e", " ", "r", "e", "f", "r", "i", "g", "e", "r", "a", "t", "o", "r", "s">> >>
          [] OTHER ->
               << <<"A", "d", "a", "p", "t", "i", "v", "e", " ", "s", "h", "o", "c", "k", " ", "a", "b", "s", "o", "r", "b", "e", "r", "s">>,
                  <<"C", "l", "u", "t", "c", "h", "e", "s", " ", "a", "n", "d", " ", "b", "r", "a", "k", "e", "s">>,
                  <<"S", "e", "i", "s", "m", "i", "c", " ", "d", "a", "m", "p", "e", "r", "s">> >>]

technical_domains ==
    [e \in EffectIds |->
        CASE e = "thermal_expansion" ->
               << <<"M", "e", "c", "h", "a", "n", "i", "c", "a", "l">>,
                  <<"C", "i", "v", "i", "l">>,
                  <<"M", "a", "n", "u", "f", "a", "c", "t", "u", "r", "i", "n", "g">> >>
          [] e = "shape_memory" ->
               << <<"M", "e", "d", "i", "c", "a", "l">>,
                  <<"A", "e", "r", "o", "s", "p", "a", "c", "e">>,
                  <<"R", "o", "b", "o", "t", "i", "c", "s">> >>
          [] e = "piezoelectric" ->
               << <<"E", "l", "e", "c", "t", "r", "o", "n", "i", "c", "s">>,
                  <<"S", "e", "n", "s", "o", "r", "s">>,
                  <<"E", "n", "e", "r", "g", "y">> >>
          [] e = "electrochromic" ->
               << <<"A", "r", "c", "h", "i", "t", "e", "c", "t", "u", "r", "e">>,
                  <<"A", "u", "t", "o", "m", "o", "t", "i", "v", "e">>,
                  <<"D", "i", "s", "p", "l", "a", "y", "s">> >>
          [] e = "superconductivity" ->
               << <<"M", "e", "d", "i", "c", "a", "l">>,
                  <<"T", "r", "a", "n", "s", "p", "o", "r", "t", "a", "t", "i", "o", "n">>,
                  <<"E", "n", "e", "r", "g", "y">> >>
          [] e = "aerogel" ->
               << <<"A", "e", "r", "o", "s", "p", "a", "c", "e">>,
                  <<"C", "o", "n", "s", "t", "r", "u", "c", "t", "i", "o", "n">>,
                  <<"E", "n", "e", "r", "g", "y">> >>
          [] e = "sonoluminescence" ->
               << <<"C", "h", "e", "m", "i", "s", "t", "r", "y">>,
                  <<"M", "e", "d", "i", "c", "a", "l">>,
                  <<"I", "n", "d", "u", "s", "t", "r", "i", "a", "l">> >>
          [] e = "capillary_action" ->
               << <<"C", "h", "e", "m", "i", "c", "a", "l">>,
                  <<"A", "g", "r", "i", "c", "u", "l", "t", "u", "r", "a", "l">>,
                  <<"M", "a", "t", "e", "r", "i", "a", "l", "s">> >>
          [] e = "thermoelectric" ->
               << <<"E", "n", "e", "r", "g", "y">>,
                  <<"S", "e", "n", "s", "o", "r", "s">>,
                  <<"E", "l", "e", "c", "t", "r", "o", "n", "i", "c", "s">> >>
          [] OTHER ->
               << <<"A", "u", "t", "o", "m", "o", "t", "i", "v", "e">>,
                  <<"C", "i", "v", "i", "l">>,
                  <<"R", "o", "b", "o", "t", "i", "c", "s">> >>]

\* sum(1 for x in list if P(x)), as the two nested loops count it.
CountHits(texts, keywords) ==
    Cardinality({<<i, j>> \in (DOMAIN texts) \X (DOMAIN keywords) :
                    Contains(Lower(keywords[j]), Lower(texts[i]))})

DomainMatchUncapped(effect, domain_keywords) ==
    Pct(30) * CountHits(applications[effect], domain_keywords)
        + Pct(20) * CountHits(technical_domains[effect], domain_keywords)

_calculate_domain_match(effect, domain_keywords) ==
    Min(DomainMatchUncapped(effect, domain_keywords), Pct(100))

_matches_domain_keywords(effect, domain_keywords) ==
    \/ CountHits(applications[effect], domain_keywords) > 0
    \/ CountHits(technical_domains[effect], domain_keywords) > 0

\* len(common_principles) / len(principle_ids)
OverlapRatio(principle_ids, effect) ==
    (Cardinality(Range(principle_ids) \cap Range(related_principles[effect])) * One)
        \div Len(principle_ids)

effects_threshold == 1200

\* The body of the loop without the skip of the effects that share no principle.
EffectForPrinciplesWithoutSkip(effect, principle_ids, domain_keywords) ==
    LET common_principles == Range(principle_ids) \cap Range(related_principles[effect])
        ratio == IF principle_ids = <<>> THEN 0
                 ELSE (Cardinality(common_principles) * One) \div Len(principle_ids)
        relevance_score ==
            IF domain_keywords # <<>>
            THEN (ratio + _calculate_domain_match(effect, domain_keywords)) \div 2
            ELSE ratio
    IN IF relevance_score > effects_threshold
       THEN << [effect |-> effect, relevance_score |-> relevance_score,
                combination_principles |-> common_principles] >>
       ELSE <<>>

\* The body of the loop of find_effects_for_principles for one effect: the
\* recommendation appended, if any.
EffectForPrinciples(effect, principle_ids, domain_keywords) ==
    LET common_principles == Range(principle_ids) \cap Range(related_principles[effect])
        ratio == OverlapRatio(principle_ids, effect)
        relevance_score ==
            IF domain_keywords # <<>>
            THEN (ratio + _calculate_domain_match(effect, domain_keywords)) \div 2
            ELSE ratio
    IN IF common_principles = {} THEN <<>>
       ELSE IF relevance_score > effects_threshold
            THEN << [effect |-> effect, relevance_score |-> relevance_score,
                     combination_principles |-> common_principles] >>
       ELSE <<>>

RECURSIVE EffectsLoop(_, _, _)
EffectsLoop(effects, principle_ids, domain_keywords) ==
    IF effects = <<>> THEN <<>>
    ELSE EffectForPrinciples(Head(effects), principle_ids, domain_keywords)
             \o EffectsLoop(Tail(effects), principle_ids, domain_keywords)

\* EffectsLookup.__init__: the catalog is built in, the file is not read.
EffectsLookupInit == [built |-> TRUE, effects_database |-> effects_database]

find_effects_for_principles(lk, principle_ids, domain_keywords) ==
    SortDescending(EffectsLoop(lk.effects_database, principle_ids, domain_keywords),
                   "relevance_score")

param_to_effects ==
    [p \in {9, 14, 17, 19, 21} |->
        CASE p = 9 -> {"thermal_expansion", "shape_memory", "piezoelectric"}
          [] p = 14 -> {"shape_memory", "magnetorheological", "thermal_expansion"}
          [] p = 17 -> {"thermal_expansion", "shape_memory", "superconductivity"}
          [] p = 19 -> {"thermoelectric", "capillary_action", "aerogel"}
          [] OTHER -> {"piezoelectric", "thermoelectric", "magnetorheological"}]

HasDomainTag(effect, tags) ==
    \E i \in DOMAIN technical_domains[effect] : technical_domains[effect][i] \in tags

ContradictionRelevanceUncapped(effect, improving_param, worsening_param) ==
    LET principle_relevance ==
            (Cardinality(Range(related_principles[effect]) \cap {15, 35, 2, 1}) * One) \div 4
        improving_bonus ==
            IF improving_param \in {9, 19, 21}
               /\ HasDomainTag(effect, { <<"E", "n", "e", "r", "g", "y">>,
                       <<"E", "l", "e", "c", "t", "r", "o", "n", "i", "c", "s">> })
            THEN Pct(30) ELSE 0
        worsening_bonus ==
            IF worsening_param \in {1, 14}
               /\ HasDomainTag(effect, { <<"M", "a", "t", "e", "r", "i", "a", "l", "s">>,
                       <<"M", "e", "c", "h", "a", "n", "i", "c", "a", "l">> })
            THEN Pct(30) ELSE 0
    IN principle_relevance + improving_bonus + worsening_bonus

_calculate_contradiction_relevance(effect, improving_param, worsening_param) ==
    Min(ContradictionRelevanceUncapped(effect, improving_param, worsening_param), Pct(100))

contradiction_threshold == 600

\* The recommendations of find_effects_for_contradiction.  The list is built
\* by iterating a set of strings and then sorted by score, so the order of
\* equal scores is not fixed; the model keeps the recommendations as a set.
find_effects_for_contradiction(improving_param, worsening_param, domain_keywords) ==
    LET from_params ==
            UNION {param_to_effects[p] :
                      p \in {improving_param, worsening_param} \cap DOMAIN param_to_effects}
        from_domains ==
            IF domain_keywords # <<>>
            THEN {e \in EffectIds : _matches_domain_keywords(e, domain_keywords)}
            ELSE {}
        relevant_effect_ids == from_params \cup from_domains
    IN {[effect |-> e,
         relevance_score |->
             _calculate_contradiction_relevance(e, improving_param, worsening_param),
         combination_principles |-> Range(related_principles[e])] :
           e \in {x \in relevant_effect_ids \cap EffectIds :
                     _calculate_contradiction_relevance(x, improving_param, worsening_param)
                         > contradiction_threshold}}

(***************************************************************************)
(* AdaptationPlanner._calculate_adaptation_confidence.                     *)
(***************************************************************************)
\* The sum without the bonus for medium technical expertise.
ConfidenceWithoutExpertise(concept, context) ==
    Pct(50)
      + (IF context.budget_level = "medium" THEN Pct(20) ELSE 0)
      + (IF context.timeline = "medium" THEN Pct(20) ELSE 0)
      - (IF context.budget_level = "low"
            /\ Get(concept, "estimated_complexity", "None") = "High"
         THEN Pct(20) ELSE 0)
      - (IF context.timeline = "short"
            /\ Get(concept, "innovation_level", "None") = "Breakthrough"
         THEN Pct(20) ELSE 0)

ConfidenceUnclamped(concept, context) ==
    Pct(50)
      + (IF context.budget_level = "medium" THEN Pct(20) ELSE 0)
      + (IF context.timeline = "medium" THEN Pct(20) ELSE 0)
      + (IF context.technical_expertise = "medium" THEN Pct(20) ELSE 0)
      - (IF context.budget_level = "low"
            /\ Get(concept, "estimated_complexity", "None") = "High"
         THEN Pct(20) ELSE 0)
      - (IF context.timeline = "short"
            /\ Get(concept, "innovation_level", "None") = "Breakthrough"
         THEN Pct(20) ELSE 0)

\* The confidence without the final max(0.1, min(1.0, confidence)).
AdaptationConfidenceNoClamp(concept, context) == ConfidenceUnclamped(concept, context)

_calculate_adaptation_confidence(concept, context) ==
    Max(Pct(10), Min(Pct(100), ConfidenceUnclamped(concept, context)))

(***************************************************************************)
(* AdaptationPlanner.adapt_concepts.  A text the code only passes on is a  *)
(* string; a text it builds is the tuple of its parts; the roadmap steps,  *)
(* which it rewrites, are lists of words.                                  *)
(***************************************************************************)
\* The keys of the rule table __init__ loads; adapt_concepts never reads it.
_load_adaptation_rules ==
    [rule \in {"budget_constraints", "timeline_constraints", "technical_expertise"} |->
        {"low", "medium", "high"}]

AdaptationPlannerInit == [built |-> TRUE, adaptation_rules |-> _load_adaptation_rules]

\* list[:n] of Python, for any integer n.
SliceTo(list, n) ==
    IF n >= 0 THEN SubSeq(list, 1, Min(n, Len(list)))
    ELSE SubSeq(list, 1, Max(0, Len(list) + n))

_adapt_concept_title(original_title, context) ==
    IF context.budget_level = "low" THEN <<"Budget-Friendly", original_title>>
    ELSE IF context.timeline = "short" THEN <<"Quick-Implementation", original_title>>
    ELSE IF context.company_size = "startup" THEN <<"Startup-Suitable", original_title>>
    ELSE <<"Enterprise", original_title>>

_adapt_concept_description(original_description, context) ==
    IF context.budget_level = "low" THEN <<original_description, "cost-effective">>
    ELSE IF context.technical_expertise = "low" THEN <<original_description, "accessible">>
    ELSE IF context.timeline = "short" THEN <<original_description, "quick deployment">>
    ELSE <<original_description>>

_generate_contextual_modifications(concept, context) ==
    LET budget == IF context.budget_level = "low"
                  THEN <<"off-the-shelf", "phases", "existing infrastructure">>
                  ELSE IF context.budget_level = "high"
                       THEN <<"premium materials", "custom development", "testing">>
                  ELSE <<>>
        timeline == IF context.timeline = "short"
                    THEN <<"quick wins", "proven technologies", "minimal customization">>
                    ELSE IF context.timeline = "long"
                         THEN <<"research phase", "extensive testing", "breakthrough">>
                    ELSE <<>>
        expertise == IF context.technical_expertise = "low"
                     THEN <<"external experts", "simplified versions", "training">>
                     ELSE IF context.technical_expertise = "high"
                          THEN <<"internal expertise", "advanced variations", "research">>
                     ELSE <<>>
    IN SliceTo(budget \o timeline \o expertise, 5)

base_steps ==
    << <<"1.", "Assess", "current", "capabilities", "and", "resources">>,
       <<"2.", "Acquire", "necessary", "materials", "and", "components">>,
       <<"3.", "Develop", "prototype", "or", "pilot", "implementation">>,
       <<"4.", "Test", "and", "validate", "the", "solution">>,
       <<"5.", "Deploy", "and", "monitor", "performance">>,
       <<"6.", "Optimize", "based", "on", "real-world", "feedback">> >>

short_roadmap ==
    << <<"1.", "Quick", "assessment", "and", "resource", "acquisition", "(1-2", "weeks)">>,
       <<"2.", "Rapid", "prototyping", "and", "initial", "testing", "(2-4", "weeks)">>,
       <<"3.", "Immediate", "deployment", "with", "basic", "optimization", "(1-2", "weeks)">>,
       <<"4.", "Performance", "monitoring", "and", "quick", "iterations", "(ongoing)">> >>

long_roadmap ==
    << <<"1.", "Comprehensive", "capability", "and", "resource", "assessment", "(2-4", "weeks)">>,
       <<"2.", "Detailed", "planning", "and", "specification", "development", "(3-6", "weeks)">>,
       <<"3.", "Extensive", "prototyping", "with", "multiple", "iterations", "(8-12", "weeks)">>,
       <<"4.", "Thorough", "testing", "and", "validation", "across", "scenarios", "(6-8", "weeks)">>,
       <<"5.", "Phased", "deployment", "with", "monitoring", "(4-6", "weeks)">>,
       <<"6.", "Continuous", "optimization", "and", "enhancement", "(ongoing)">> >>

\* step.replace("comprehensive", "focused").replace("extensive", "targeted"):
\* the replacement is case-sensitive.
ReplaceWords(step) ==
    [i \in DOMAIN step |->
        IF step[i] = "comprehensive" THEN "focused"
        ELSE IF step[i] = "extensive" THEN "targeted"
        ELSE step[i]]

_generate_implementation_roadmap(concept, context) ==
    LET roadmap == IF context.timeline = "short" THEN short_roadmap
                   ELSE IF context.timeline = "long" THEN long_roadmap
                   ELSE base_steps
    IN IF context.budget_level = "low"
       THEN [i \in DOMAIN roadmap |-> ReplaceWords(roadmap[i])]
       ELSE roadmap

_assess_resource_requirements(concept, context) ==
    [financial |-> IF context.budget_level = "low" THEN "Minimal investment"
                   ELSE IF context.budget_level = "medium" THEN "Moderate investment"
                   ELSE "Significant investment",
     time |-> IF context.timeline = "short" THEN "1-3 months"
              ELSE IF context.timeline = "medium" THEN "3-6 months"
              ELSE "6-12 months",
     expertise |-> IF context.technical_expertise = "low" THEN "External consultation"
                   ELSE IF context.technical_expertise = "medium" THEN "Internal team"
                   ELSE "Internal expertise sufficient",
     infrastructure |-> IF context.existing_infrastructure # <<>>
                        THEN <<"Can leverage", SliceTo(context.existing_infrastructure, 3)>>
                        ELSE <<"New infrastructure">>]

_assess_risks(concept, context) ==
    [technical |-> IF context.technical_expertise = "low"
                   THEN "Medium - Limited internal expertise"
                   ELSE "Low - Sufficient expertise",
     financial |-> IF context.budget_level = "low" THEN "Low - Minimal financial exposure"
                   ELSE IF context.budget_level = "high" THEN "Medium - Significant investment"
                   ELSE "Low - Moderate investment",
     timeline |-> IF context.timeline = "short" THEN "High - Aggressive schedule"
                  ELSE IF context.timeline = "long" THEN "Low - Ample time"
                  ELSE "Medium - Standard timeline",
     regulatory |-> IF context.regulatory_constraints # <<>>
                    THEN <<"Medium - Must address", SliceTo(context.regulatory_constraints, 2)>>
                    ELSE <<"Low - No significant regulatory concerns">>]

Automotive == <<"a", "u", "t", "o", "m", "o", "t", "i", "v", "e">>

Medical == <<"m", "e", "d", "i", "c", "a", "l">>

Energy == <<"e", "n", "e", "r", "g", "y">>

_define_success_metrics(concept, context) ==
    LET industry == Lower(context.industry)
        by_industry ==
            IF industry \in {Automotive, <<"m", "a", "n", "u", "f", "a", "c", "t", "u", "r",
                                           "i", "n", "g">>}
            THEN <<"production efficiency">>
            ELSE IF industry \in {Medical, <<"h", "e", "a", "l", "t", "h", "c", "a", "r", "e">>}
                 THEN <<"regulatory compliance">>
            ELSE IF industry \in {Energy, <<"e", "n", "v", "i", "r", "o", "n", "m", "e", "n",
                                            "t", "a", "l">>}
                 THEN <<"environmental impact">>
            ELSE <<>>
        by_size == IF context.company_size = "startup" THEN <<"Time to market">>
                   ELSE IF context.company_size = "enterprise" THEN <<"Scalability">>
                   ELSE <<>>
    IN <<"performance objectives", "within budget", "within timeline", "user satisfaction">>
           \o by_industry \o by_size

ConceptKeys == {"title", "description", "concept_id"}

\* _adapt_single_concept: concept['title'], concept['description'] and
\* concept['concept_id'] raise KeyError on a concept without the key.
_adapt_single_concept(concept, context, adaptation_number) ==
    IF ~(ConceptKeys \subseteq DOMAIN concept)
    THEN [status |-> "raised", exc |-> "KeyError"]
    ELSE [status |-> "returned", exc |-> "",
          value |->
              [original_concept_id |-> concept.concept_id,
               adapted_title |-> _adapt_concept_title(concept.title, context),
               adapted_description |->
                   _adapt_concept_description(concept.description, context),
               contextual_modifications |->
                   _generate_contextual_modifications(concept, context),
               implementation_roadmap |-> _generate_implementation_roadmap(concept, context),
               resource_requirements |-> _assess_resource_requirements(concept, context),
               risk_assessment |-> _assess_risks(concept, context),
               success_metrics |-> _define_success_metrics(concept, context),
               adaptation_confidence |-> _calculate_adaptation_confidence(concept, context)]]

\* The score _select_recommended_concept sorts by.
ContextFit(adapted, context) ==
    adapted.adaptation_confidence
      + (IF context.company_size = "startup" /\ Len(adapted.implementation_roadmap) <= 4
         THEN Pct(10)
         ELSE IF context.company_size = "enterprise"
                 /\ adapted.risk_assessment.technical = "Low"
              THEN Pct(10)
         ELSE 0)

\* <<the recommended concept>>, or <<>> for None.
_select_recommended_concept(adapted_concepts, context) ==
    IF adapted_concepts = <<>> THEN <<>>
    ELSE LET scored_concepts ==
                 [i \in DOMAIN adapted_concepts |->
                     [concept |-> adapted_concepts[i],
                      score |-> ContextFit(adapted_concepts[i], context)]]
         IN <<SortDescending(scored_concepts, "score")[1].concept>>

_generate_adaptation_strategy(context) ==
    <<context.company_size, context.industry>>
      \o (IF context.budget_level = "low" THEN <<"incremental", "existing", "phases">>
          ELSE IF context.budget_level = "high" THEN <<"breakthrough", "complexity", "testing">>
          ELSE <<>>)
      \o (IF context.timeline = "short" THEN <<"quick wins", "proven", "phased">>
          ELSE IF context.timeline = "long" THEN <<"research", "buffer", "breakthrough">>
          ELSE <<>>)

_generate_contextual_insights(context, adapted_concepts) ==
    (IF Lower(context.industry) = Automotive THEN <<"Automotive industry">>
     ELSE IF Lower(context.industry) = Medical THEN <<"Healthcare applications">>
     ELSE IF Lower(context.industry) = Energy THEN <<"Energy sector">>
     ELSE <<>>)
      \o (IF context.company_size = "startup" THEN <<"Startups">>
          ELSE IF context.company_size = "enterprise" THEN <<"Large organizations">>
          ELSE <<>>)
      \o (IF context.risk_tolerance = "conservative" THEN <<"Conservative approach">>
          ELSE IF context.risk_tolerance = "aggressive" THEN <<"Aggressive approach">>
          ELSE <<>>)

\* The loop over concepts[:num_adaptations]: the adapted concepts, until one
\* raises.
RECURSIVE AdaptAll(_, _, _, _)
AdaptAll(concepts, context, i, adapted_concepts) ==
    IF i > Len(concepts) THEN [status |-> "returned", exc |-> "", value |-> adapted_concepts]
    ELSE LET adapted == _adapt_single_concept(concepts[i], context, i)
         IN IF adapted.status = "raised" THEN adapted
            ELSE AdaptAll(concepts, context, i + 1, Append(adapted_concepts, adapted.value))

adapt_concepts(plr, concepts, context, num_adaptations) ==
    LET adapted == AdaptAll(SliceTo(concepts, num_adaptations), context, 1, <<>>)
    IN IF adapted.status = "raised" THEN adapted
       ELSE [status |-> "returned", exc |-> "",
             value |->
                 [adapted_concepts |-> adapted.value,
                  recommended_concept |-> _select_recommended_concept(adapted.value, context),
                  adaptation_strategy |-> _generate_adaptation_strategy(context),
                  contextual_insights |->
                      _generate_contextual_insights(context, adapted.value)]]

(***************************************************************************)
(* ContradictionIdentifier: keyword matching and identify_contradiction.   *)
(***************************************************************************)
\* The inner loop over s2 for one character c1 of s1; prev and cur are
\* previous_row and current_row, j counts from 1.
RECURSIVE LevRow(_, _, _, _, _)
LevRow(c1, s2, prev, cur, j) ==
    IF j > Len(s2) THEN cur
    ELSE LET insertions == prev[j + 1] + 1
             deletions == cur[j] + 1
             substitutions == prev[j] + (IF c1 # s2[j] THEN 1 ELSE 0)
         IN LevRow(c1, s2, prev,
                   Append(cur, Min(insertions, Min(deletions, substitutions))), j + 1)

RECURSIVE LevRows(_, _, _, _)
LevRows(s1, s2, prev, i) ==
    IF i > Len(s1) THEN prev
    ELSE LevRows(s1, s2, LevRow(s1[i], s2, prev, <<i>>, 1), i + 1)

_levenshtein_distance(s1, s2) ==
    LET long == IF Len(s1) < Len(s2) THEN s2 ELSE s1
        short == IF Len(s1) < Len(s2) THEN s1 ELSE s2
    IN IF Len(short) = 0 THEN Len(long)
       ELSE LevRows(long, short, [k \in 1..(Len(short) + 1) |-> k - 1], 1)[Len(short) + 1]

\* One pass of the loop over a parameter's keywords, for a keyword that is
\* not an exact match: what the pass can raise the score to.
KeywordTierLoose(keyword_lower, param_keyword) ==
    IF Contains(keyword_lower, param_keyword) \/ Contains(param_keyword, keyword_lower)
    THEN Pct(70)
    ELSE IF _levenshtein_distance(keyword_lower, param_keyword) <= 3 THEN Pct(50)
    ELSE 0

KeywordTier(keyword_lower, param_keyword) ==
    IF Contains(keyword_lower, param_keyword) \/ Contains(param_keyword, keyword_lower)
    THEN Pct(70)
    ELSE IF _levenshtein_distance(keyword_lower, param_keyword) <= 2 THEN Pct(50)
    ELSE 0

MaxOf(S) == CHOOSE m \in S : \A x \in S : x <= m

ParameterScore(keywords, keyword) ==
    LET keyword_lower == Lower(keyword)
    IN IF keyword_lower \in {Lower(k) : k \in keywords} THEN Pct(100)
       ELSE MaxOf({0} \cup {KeywordTier(keyword_lower, k) : k \in keywords})

match_threshold == 1800

\* The ids of a list of entries, each once, in the order of first occurrence:
\* the iteration order of a dict built from the list.
RECURSIVE IdsInOrder(_, _)
IdsInOrder(entries, seen) ==
    IF entries = <<>> THEN <<>>
    ELSE IF Head(entries).id \in seen THEN IdsInOrder(Tail(entries), seen)
    ELSE <<Head(entries).id>> \o IdsInOrder(Tail(entries), seen \cup {Head(entries).id})

\* The matches of a keyword without the final test of the score.
MatchKeywordWithoutThreshold(idf, keyword) ==
    LET order == IdsInOrder(idf.parameters, {})
    IN [i \in DOMAIN order |->
           [param_id |-> order[i],
            score |-> ParameterScore(idf.parameter_keywords[order[i]], keyword)]]

\* The (param_id, score) pairs, in the order of self.parameter_keywords.
_match_keyword_to_parameters(idf, keyword) ==
    LET order == IdsInOrder(idf.parameters, {})
        scored == [i \in DOMAIN order |->
                      [param_id |-> order[i],
                       score |-> ParameterScore(idf.parameter_keywords[order[i]], keyword)]]
    IN SelectSeq(scored, LAMBDA m : m.score > match_threshold)

\* candidates.extend(...) over the regex matches, in match order.
RECURSIVE CandidatesOf(_, _)
CandidatesOf(idf, keywords) ==
    IF keywords = <<>> THEN <<>>
    ELSE _match_keyword_to_parameters(idf, Head(keywords)) \o CandidatesOf(idf, Tail(keywords))

\* scored_candidates[param_id] = max(scored_candidates.get(param_id, 0), score),
\* then list(scored_candidates.items()).
RECURSIVE ScoredCandidates(_, _)
ScoredCandidates(candidates, scored) ==
    IF candidates = <<>> THEN scored
    ELSE LET c == Head(candidates)
             at == {i \in DOMAIN scored : scored[i].param_id = c.param_id}
         IN ScoredCandidates(
                Tail(candidates),
                IF at = {} THEN Append(scored, [param_id |-> c.param_id, score |-> Max(0, c.score)])
                ELSE [i \in DOMAIN scored |->
                         IF i \in at
                         THEN [param_id |-> c.param_id, score |-> Max(scored[i].score, c.score)]
                         ELSE scored[i]])

\* The keywords are the captured groups of the improvement patterns found in
\* the lowercased text, pattern by pattern.
_find_improvement_parameters(idf, keywords) ==
    ScoredCandidates(CandidatesOf(idf, keywords), <<>>)

\* The same for the worsening patterns.
_find_worsening_parameters(idf, keywords) ==
    ScoredCandidates(CandidatesOf(idf, keywords), <<>>)

Confidence(imp_score, wors_score) == (imp_score + wors_score) \div 2

\* The nested loops without the test that skips self-pairs.
CrossPairsKeepingSelfPairs(improvement_candidates, worsening_candidates) ==
    LET n == Len(worsening_candidates)
    IN [k \in 1..(Len(improvement_candidates) * n) |->
           LET imp == improvement_candidates[((k - 1) \div n) + 1]
               wors == worsening_candidates[((k - 1) % n) + 1]
           IN [improving_parameter |-> imp.param_id,
               worsening_parameter |-> wors.param_id,
               confidence_score |-> (imp.score + wors.score) \div 2]]

\* The nested loops over the two candidate lists.
CrossPairs(improvement_candidates, worsening_candidates) ==
    LET n == Len(worsening_candidates)
        all == [k \in 1..(Len(improvement_candidates) * n) |->
                   LET imp == improvement_candidates[((k - 1) \div n) + 1]
                       wors == worsening_candidates[((k - 1) % n) + 1]
                   IN [improving_parameter |-> imp.param_id,
                       worsening_parameter |-> wors.param_id,
                       confidence_score |-> Confidence(imp.score, wors.score)]]
    IN SelectSeq(all, LAMBDA c : c.improving_parameter # c.worsening_parameter)

alternatives_threshold == 1800

\* identify_contradiction without the sort of the contradictions.
IdentifyWithoutSorting(idf, improvement_keywords, worsening_keywords) ==
    LET contradictions ==
            CrossPairs(_find_improvement_parameters(idf, improvement_keywords),
                       _find_worsening_parameters(idf, worsening_keywords))
    IN [contradictions |-> contradictions,
        primary_contradiction |->
            IF contradictions # <<>> THEN <<contradictions[1]>> ELSE <<>>,
        alternative_contradictions |->
            SelectSeq(Tail(IF contradictions = <<>> THEN <<0>> ELSE contradictions),
                      LAMBDA c : c.confidence_score > alternatives_threshold)]

\* identify_contradiction on the keywords its patterns capture from the text.
identify_contradiction(idf, improvement_keywords, worsening_keywords) ==
    LET improvement_candidates == _find_improvement_parameters(idf, improvement_keywords)
        worsening_candidates == _find_worsening_parameters(idf, worsening_keywords)
        contradictions ==
            SortDescending(CrossPairs(improvement_candidates, worsening_candidates),
                           "confidence_score")
    IN [contradictions |-> contradictions,
        primary_contradiction |->
            IF contradictions # <<>> THEN <<contradictions[1]>> ELSE <<>>,
        alternative_contradictions |->
            SelectSeq(Tail(IF contradictions = <<>> THEN <<0>> ELSE contradictions),
                      LAMBDA c : c.confidence_score > alternatives_threshold)]

(***************************************************************************)
(* The pipeline components as a state machine: one call at a time on the   *)
(* constructed components, its outcome kept in call until the caller       *)
(* takes it.                                                               *)
(***************************************************************************)
MaxWordLen == 3

MaxMatches == 2

MaxIds == 2

MaxDomainKeywords == 2

\* Candidate keywords: every word over a, b, c up to MaxWordLen letters, and
\* two capitalised ones.
CandidateKeywords ==
    SeqsUpTo({"a", "b", "c"}, MaxWordLen) \cup { <<"A", "b", "a">>, <<"C", "c">> }

\* The keywords the patterns capture in identify_contradiction.
CapturedKeywords == { <<"a", "b", "a">>, <<"c", "c", "c">>, <<"c", "a", "b">> }

ParameterIds == 1..39

\* One parameter of each class the effect rules tell apart.
EffectParameterIds == {1, 9, 14, 17, 19, 21, 27}

PrincipleIdPool == {15, 35, 31, 99}

DomainKeywordPool ==
    { <<"E", "n", "e", "r", "g", "y">>, <<"e">>, <<"z", "z", "z">> }

Levels == {"low", "medium", "high"}

Timelines == {"short", "medium", "long"}

Complexities == {"Low", "Medium", "High", "None"}

Innovations == {"Incremental", "Radical", "Breakthrough"}

Idle == call.op = "none"

Outcome(op, args, result) == [op |-> op, args |-> args, result |-> result]

SelectPrinciples ==
    /\ Idle
    /\ \E improving_param \in ParameterIds, worsening_param \in ParameterIds :
          call' = Outcome("select_principles", <<improving_param, worsening_param>>,
                          select_principles(selector, improving_param, worsening_param))
    /\ UNCHANGED <<files, cache, reads, kbres, identifier, selector, lookup, planner, adapter, repo, threads, log>>

FindEffectsForPrinciples ==
    /\ Idle
    /\ \E principle_ids \in SeqsUpTo(PrincipleIdPool, MaxIds),
          domain_keywords \in SeqsUpTo(DomainKeywordPool, MaxDomainKeywords) :
          call' = Outcome("find_effects_for_principles", <<principle_ids, domain_keywords>>,
                          find_effects_for_principles(lookup, principle_ids, domain_keywords))
    /\ UNCHANGED <<files, cache, reads, kbres, identifier, selector, lookup, planner, adapter, repo, threads, log>>

FindEffectsForContradiction ==
    /\ Idle
    /\ \E improving_param \in EffectParameterIds, worsening_param \in EffectParameterIds,
          domain_keywords \in SeqsUpTo(DomainKeywordPool, MaxDomainKeywords) :
          call' = Outcome("find_effects_for_contradiction",
                          <<improving_param, worsening_param, domain_keywords>>,
                          find_effects_for_contradiction(improving_param, worsening_param,
                                                         domain_keywords))
    /\ UNCHANGED <<files, cache, reads, kbres, identifier, selector, lookup, planner, adapter, repo, threads, log>>

MatchKeywordToParameters ==
    /\ Idle
    /\ \E keyword \in CandidateKeywords :
          call' = Outcome("_match_keyword_to_parameters", <<keyword>>,
                          _match_keyword_to_parameters(identifier, keyword))
    /\ UNCHANGED <<files, cache, reads, kbres, identifier, selector, lookup, planner, adapter, repo, threads, log>>

IdentifyContradiction ==
    /\ Idle
    /\ \E improvement_keywords \in SeqsUpTo(CapturedKeywords, MaxMatches),
          worsening_keywords \in SeqsUpTo(CapturedKeywords, MaxMatches) :
          call' = Outcome("identify_contradiction",
                          <<improvement_keywords, worsening_keywords>>,
                          identify_contradiction(identifier, improvement_keywords,
                                                 worsening_keywords))
    /\ UNCHANGED <<files, cache, reads, kbres, identifier, selector, lookup, planner, adapter, repo, threads, log>>

CalculateAdaptationConfidence ==
    /\ Idle
    /\ \E budget_level \in Levels, timeline \in Timelines, technical_expertise \in Levels,
          estimated_complexity \in Complexities, innovation_level \in Innovations :
          LET context == [budget_level |-> budget_level, timeline |-> timeline,
                          technical_expertise |-> technical_expertise]
              concept == [estimated_complexity |-> estimated_complexity,
                          innovation_level |-> innovation_level]
          IN call' = Outcome("_calculate_adaptation_confidence", <<concept, context>>,
                             _calculate_adaptation_confidence(concept, context))
    /\ UNCHANGED <<files, cache, reads, kbres, identifier, selector, lookup, planner, adapter, repo, threads, log>>

\* The caller takes the outcome; the components are as before.
Return ==
    /\ ~Idle
    /\ call' = NoCall
    /\ UNCHANGED <<files, cache, reads, kbres, identifier, selector, lookup, planner, adapter, repo, threads, log>>

PipelineTables ==
    { <<ParameterListA, PrincipleList(1..40)>>,
      <<ParameterListB, PrincipleList({2, 15, 35})>>,
      <<ParameterListA, PrincipleList({15})>> }

PipelineFileSystems ==
    {[parameters |-> [kind |-> "ok", entries |-> t[1]],
      principles |-> [kind |-> "ok", entries |-> t[2]],
      matrix |-> [kind |-> "ok", rows |-> <<>>, bad |-> FALSE]] : t \in PipelineTables}

InitPipeline ==
    /\ files \in PipelineFileSystems
    /\ cache = [l \in Loaders |-> NewLoader]
    /\ reads = NoReads
    /\ kbres = NoResult
    /\ identifier = ContradictionIdentifierInit(files.parameters)
    /\ selector = PrincipleSelectorInit(files.principles)
    /\ call = NoCall
    /\ lookup = EffectsLookupInit
    /\ planner = AdaptationPlannerInit
    /\ adapter = NoAdapter
    /\ repo = NoRepo
    /\ threads = NoThreads
    /\ log = NoCall

NextPipeline ==
    \/ SelectPrinciples
    \/ FindEffectsForPrinciples
    \/ FindEffectsForContradiction
    \/ MatchKeywordToParameters
    \/ IdentifyContradiction
    \/ CalculateAdaptationConfidence
    \/ Return

SpecPipeline == InitPipeline /\ [][NextPipeline]_vars

(***************************************************************************)
(* ProblemParser.                                                          *)
(***************************************************************************)
improvement_keywords ==
    << <<"f", "a", "s", "t", "e", "r">>, <<"s", "t", "r", "o", "n", "g", "e", "r">>,
       <<"l", "i", "g", "h", "t", "e", "r">>, <<"c", "h", "e", "a", "p", "e", "r">>,
       <<"m", "o", "r", "e", " ", "e", "f", "f", "i", "c", "i", "e", "n", "t">>,
       <<"i", "n", "c", "r", "e", "a", "s", "e">>, <<"i", "m", "p", "r", "o", "v", "e">>,
       <<"e", "n", "h", "a", "n", "c", "e">>, <<"o", "p", "t", "i", "m", "i", "z", "e">>,
       <<"b", "e", "t", "t", "e", "r">> >>

consequence_keywords ==
    << <<"b", "u", "t">>, <<"h", "o", "w", "e", "v", "e", "r">>,
       <<"c", "a", "u", "s", "e", "s">>,
       <<"r", "e", "s", "u", "l", "t", "s", " ", "i", "n">>,
       <<"l", "e", "a", "d", "s", " ", "t", "o">>,
       <<"a", "t", " ", "t", "h", "e", " ", "c", "o", "s", "t", " ", "o", "f">>,
       <<"u", "n", "f", "o", "r", "t", "u", "n", "a", "t", "e", "l", "y">>,
       <<"d", "o", "w", "n", "s", "i", "d", "e">> >>

\* The ParsedProblem fields that are Optional hold <<>> for None and <<v>>
\* for a value v.
None == <<>>

Whitespace == {" ", "\t", "\n"}

RECURSIVE LeftStrip(_)
LeftStrip(text) ==
    IF text # <<>> /\ Head(text) \in Whitespace THEN LeftStrip(Tail(text)) ELSE text

RECURSIVE RightStrip(_)
RightStrip(text) ==
    IF text # <<>> /\ text[Len(text)] \in Whitespace
    THEN RightStrip(SubSeq(text, 1, Len(text) - 1))
    ELSE text

\* str.strip()
Strip(text) == RightStrip(LeftStrip(text))

\* re.sub(r'\s+', ' ', text): every run of whitespace becomes one space.
CollapseWhitespace(text) ==
    LET kept == {i \in 1..Len(text) :
                    text[i] \in Whitespace => (i = 1 \/ text[i - 1] \notin Whitespace)}
        nth(k) == CHOOSE i \in kept : Cardinality({j \in kept : j <= i}) = k
    IN [k \in 1..Cardinality(kept) |->
           IF text[nth(k)] \in Whitespace THEN " " ELSE text[nth(k)]]

_normalize_text(text) == Lower(CollapseWhitespace(Strip(text)))

\* word is in text at position i.
MatchesAt(word, text, i) ==
    i + Len(word) - 1 <= Len(text) /\ SubSeq(text, i, i + Len(word) - 1) = word

\* re.search(r'(a|b|c)', text): the leftmost position where an alternative
\* matches and, there, the first alternative that does; <<>> for no match.
SearchGroup(alternatives, text) ==
    LET at(i) == {k \in DOMAIN alternatives : MatchesAt(alternatives[k], text, i)}
        positions == {i \in 1..Len(text) : at(i) # {}}
    IN IF positions = {} THEN None
       ELSE LET i == CHOOSE x \in positions : \A y \in positions : x <= y
                k == CHOOSE x \in at(i) : \A y \in at(i) : x <= y
            IN <<alternatives[k]>>

system_patterns ==
    << << <<"c", "a", "r">>, <<"v", "e", "h", "i", "c", "l", "e">>,
          <<"a", "u", "t", "o", "m", "o", "b", "i", "l", "e">> >>,
       << <<"e", "n", "g", "i", "n", "e">>, <<"m", "o", "t", "o", "r">> >>,
       << <<"m", "a", "c", "h", "i", "n", "e">>, <<"d", "e", "v", "i", "c", "e">>,
          <<"s", "y", "s", "t", "e", "m">> >> >>

\* The group whose match comes first in the text, whatever its place in the
\* list.
FirstInTextOrder(patterns, text) ==
    IF patterns = <<>> THEN None
    ELSE LET found == {SearchGroup(patterns[k], text) : k \in DOMAIN patterns} \ {None}
             pos(m) == CHOOSE i \in 1..Len(text) : MatchesAt(m[1], text, i)
         IN IF found = {} THEN None
            ELSE CHOOSE m \in found : \A n \in found : pos(m) <= pos(n)

RECURSIVE FirstInListedOrder(_, _)
FirstInListedOrder(patterns, text) ==
    IF patterns = <<>> THEN None
    ELSE IF SearchGroup(Head(patterns), text) # None THEN SearchGroup(Head(patterns), text)
    ELSE FirstInListedOrder(Tail(patterns), text)

_extract_technical_system(text) == FirstInListedOrder(system_patterns, text)

RECURSIVE FirstKeywordIn(_, _)
FirstKeywordIn(keywords, text) ==
    IF keywords = <<>> THEN None
    ELSE IF Contains(Head(keywords), text) THEN <<Head(keywords)>>
    ELSE FirstKeywordIn(Tail(keywords), text)

_extract_desired_improvement(text) == FirstKeywordIn(improvement_keywords, text)

\* text.split(keyword, 1)[1] for a keyword that is in text.
AfterFirst(keyword, text) ==
    LET i == CHOOSE x \in 1..Len(text) :
                 /\ MatchesAt(keyword, text, x)
                 /\ \A y \in 1..(x - 1) : ~MatchesAt(keyword, text, y)
    IN SubSeq(text, i + Len(keyword), Len(text))

consequence_limit == 50

\* The consequence taken after the connective phrase that comes first in the
\* text, whatever its place in the list.
ConsequenceAfterEarliestPhrase(text) ==
    LET at(i) == {k \in DOMAIN consequence_keywords :
                     MatchesAt(consequence_keywords[k], text, i)}
        positions == {i \in 1..Len(text) : at(i) # {}}
    IN IF positions = {} THEN None
       ELSE LET i == CHOOSE x \in positions : \A y \in positions : x <= y
                k == CHOOSE x \in at(i) : \A y \in at(i) : x <= y
                consequence ==
                    Strip(SubSeq(text, i + Len(consequence_keywords[k]), Len(text)))
            IN <<SubSeq(consequence, 1, Min(consequence_limit, Len(consequence)))>>

_extract_undesired_consequence(text) ==
    LET keyword == FirstKeywordIn(consequence_keywords, text)
    IN IF keyword = None THEN None
       ELSE LET consequence == Strip(AfterFirst(keyword[1], text))
            IN <<SubSeq(consequence, 1, Min(consequence_limit, Len(consequence)))>>

\* The length of the run of word characters of text from position i on.
WordRun(text, i) ==
    Cardinality({k \in i..Len(text) : \A j \in i..k : text[j] \in WordChars})

\* re.findall(prefix + r'(\w+)', text): the captured words of the matches,
\* left to right, a match starting where the one before ended at the
\* earliest.
RECURSIVE FindAllAfter(_, _, _)
FindAllAfter(prefix, text, i) ==
    LET matches == {j \in i..Len(text) :
                       MatchesAt(prefix, text, j) /\ WordRun(text, j + Len(prefix)) > 0}
    IN IF matches = {} THEN <<>>
       ELSE LET j == CHOOSE x \in matches : \A y \in matches : x <= y
                n == WordRun(text, j + Len(prefix))
            IN <<SubSeq(text, j + Len(prefix), j + Len(prefix) + n - 1)>>
                   \o FindAllAfter(prefix, text, j + Len(prefix) + n)

constraint_patterns ==
    << <<"w", "i", "t", "h", "o", "u", "t", " ">>,
       <<"m", "u", "s", "t", " ", "n", "o", "t", " ">>,
       <<"c", "a", "n", "n", "o", "t", " ">> >>

_extract_constraints(text) ==
    FindAllAfter(constraint_patterns[1], text, 1)
        \o FindAllAfter(constraint_patterns[2], text, 1)
        \o FindAllAfter(constraint_patterns[3], text, 1)

AnyIn(wordlist, text) == \E k \in DOMAIN wordlist : Contains(wordlist[k], text)

_extract_context(text) ==
    [domain |->
        IF AnyIn(<< <<"c", "a", "r">>, <<"v", "e", "h", "i", "c", "l", "e">>,
                   <<"e", "n", "g", "i", "n", "e">> >>, text) THEN "automotive"
        ELSE IF AnyIn(<< <<"m", "a", "c", "h", "i", "n", "e">>,
                        <<"m", "a", "n", "u", "f", "a", "c", "t", "u", "r", "i", "n", "g">> >>, text) THEN "manufacturing"
        ELSE "general"]

\* A parse that keeps the normalized text in place of the original.
ParseKeepingNormalized(problem_text) ==
    LET normalized == _normalize_text(problem_text)
    IN [original_text |-> normalized,
        normalized_description |-> normalized,
        technical_system |-> _extract_technical_system(normalized),
        desired_improvement |-> _extract_desired_improvement(normalized),
        undesired_consequence |-> _extract_undesired_consequence(normalized),
        constraints |-> _extract_constraints(normalized),
        context |-> _extract_context(normalized)]

parse(problem_text) ==
    LET normalized == _normalize_text(problem_text)
    IN [original_text |-> problem_text,
        normalized_description |-> normalized,
        technical_system |-> _extract_technical_system(normalized),
        desired_improvement |-> _extract_desired_improvement(normalized),
        undesired_consequence |-> _extract_undesired_consequence(normalized),
        constraints |-> _extract_constraints(normalized),
        context |-> _extract_context(normalized)]

(***************************************************************************)
(* The parser called on problem texts.                                     *)
(***************************************************************************)
MaxTextWords == 2

sample_problem_text ==
    <<"W", "e", " ", "n", "e", "e", "d", " ", "t", "o", " ", "m", "a", "k">>
      \o <<"e", " ", "a", " ", "c", "a", "r", " ", "f", "a", "s", "t", "e", "r">>
      \o <<",", " ", "b", "u", "t", " ", "i", "n", "c", "r", "e", "a", "s", "i">>
      \o <<"n", "g", " ", "e", "n", "g", "i", "n", "e", " ", "p", "o", "w", "e">>
      \o <<"r", " ", "m", "a", "k", "e", "s", " ", "i", "t", " ", "c", "o", "n">>
      \o <<"s", "u", "m", "e", " ", "m", "o", "r", "e", " ", "f", "u", "e", "l">>
      \o <<".">>

\* A problem text with two connective phrases, the later-listed one first.
two_connectives_text == <<"L", "i", "g", "h", "t", ",", " ", " ", "h", "o", "w", "e", "v", "e", "r", " ", "w", "e", "a", "k", " ", "b", "u", "t", " ", "c", "h", "e", "a", "p">>

\* The words the problem texts are put together from, each followed by the
\* separator shown.
TextWords ==
    { <<"e", "n", "g", "i", "n", "e", " ">>, <<"a", " ", "C", "a", "r", " ">>,
      <<"m", "a", "c", "h", "i", "n", "e", "\t">>,
      <<"b", "e", "t", "t", "e", "r", ",", " ">>, <<"f", "a", "s", "t", "e", "r", " ">>,
      <<"b", "u", "t", " ">>, <<"v", "e", "h", "i", "c", "l", "e">>,
      <<"w", "i", "t", "h", "o", "u", "t", " ", "f", "u", "e", "l", " ">>,
      <<"m", "o", "t", "o", "r", "\n", " ">>,
      <<"h", "o", "w", "e", "v", "e", "r", " ", " ">>,
      <<"A", "u", "t", "o", "m", "o", "b", "i", "l", "e", " ">> }

RECURSIVE JoinWords(_)
JoinWords(ws) == IF ws = <<>> THEN <<>> ELSE Head(ws) \o JoinWords(Tail(ws))

ProblemTexts ==
    {JoinWords(ws) : ws \in SeqsUpTo(TextWords, MaxTextWords)}
        \cup {sample_problem_text, two_connectives_text, <<" ">>, <<" ", "\t", "\n">>}

Parse ==
    /\ Idle
    /\ \E problem_text \in ProblemTexts :
          call' = Outcome("parse", <<problem_text>>, parse(problem_text))
    /\ UNCHANGED <<files, cache, reads, kbres, identifier, selector, lookup, planner, adapter, repo, threads, log>>

NextParser ==
    \/ Parse
    \/ Return

SpecParser == InitPipeline /\ [][NextParser]_vars

(***************************************************************************)
(* Repeated calls on the same components: the outcome of one earlier call  *)
(* is kept in log and later calls are made on whatever the earlier calls   *)
(* left behind.                                                            *)
(***************************************************************************)
MaxConcepts == 2

\* What a call leaves behind besides its result: the component and the
\* argument objects after it.  select_principles assigns no attribute of self
\* and has only integer arguments.
SelectPrinciplesCall(sel, improving_param, worsening_param) ==
    [result |-> select_principles(sel, improving_param, worsening_param),
     self |-> sel,
     args |-> <<improving_param, worsening_param>>]

\* A lookup that takes the first effect out of the catalog as it answers.
FindEffectsCallConsuming(lk, principle_ids, domain_keywords) ==
    [result |-> find_effects_for_principles(lk, principle_ids, domain_keywords),
     self |-> [lk EXCEPT !.effects_database = IF @ = <<>> THEN @ ELSE Tail(@)],
     args |-> <<principle_ids, domain_keywords>>]

\* find_effects_for_principles reads principle_ids through set() and len(),
\* builds keywords_lower as a new list and only iterates the catalog.
FindEffectsCall(lk, principle_ids, domain_keywords) ==
    [result |-> find_effects_for_principles(lk, principle_ids, domain_keywords),
     self |-> lk,
     args |-> <<principle_ids, domain_keywords>>]

\* adapt_concepts slices concepts, reads the concept dicts and the context,
\* and builds every list of the result anew.
AdaptConceptsCall(plr, concepts, context, num_adaptations) ==
    [result |-> adapt_concepts(plr, concepts, context, num_adaptations),
     self |-> plr,
     args |-> <<concepts, context, num_adaptations>>]

RepeatParameterIds == {1, 9, 14, 19}

RepeatPrincipleIds == {15, 31}

RepeatDomainKeywords == SeqsUpTo({ <<"E", "n", "e", "r", "g", "y">> }, 1)

ConceptPool ==
    { [concept_id |-> "concept_1", title |-> "T1", description |-> "D1",
       estimated_complexity |-> "High", innovation_level |-> "Breakthrough"],
      [concept_id |-> "concept_2", title |-> "T2", description |-> "D2",
       innovation_level |-> "Incremental"],
      [concept_id |-> "concept_3", description |-> "D3"] }

ContextPool ==
    { [industry |-> <<"A", "u", "t", "o", "m", "o", "t", "i", "v", "e">>,
       company_size |-> "startup", budget_level |-> "low", timeline |-> "short",
       technical_expertise |-> "low", risk_tolerance |-> "conservative",
       existing_infrastructure |-> <<"lab", "line", "crm", "erp">>,
       regulatory_constraints |-> <<>>, market_requirements |-> <<>>],
      [industry |-> <<"e", "n", "e", "r", "g", "y">>,
       company_size |-> "enterprise", budget_level |-> "medium", timeline |-> "medium",
       technical_expertise |-> "medium", risk_tolerance |-> "aggressive",
       existing_infrastructure |-> <<>>,
       regulatory_constraints |-> <<"r1", "r2", "r3">>, market_requirements |-> <<"m1">>],
      [industry |-> <<"r", "e", "t", "a", "i", "l">>,
       company_size |-> "sme", budget_level |-> "high", timeline |-> "long",
       technical_expertise |-> "high", risk_tolerance |-> "moderate",
       existing_infrastructure |-> <<"lab">>,
       regulatory_constraints |-> <<"r1">>, market_requirements |-> <<>>] }

NumAdaptations == {-1, 2}

CallSelectPrinciples ==
    /\ Idle
    /\ \E improving_param \in RepeatParameterIds, worsening_param \in RepeatParameterIds :
          LET o == SelectPrinciplesCall(selector, improving_param, worsening_param)
          IN /\ call' = [op |-> "select_principles",
                         args |-> <<improving_param, worsening_param>>,
                         result |-> o.result, args_after |-> o.args, self_before |-> selector]
             /\ selector' = o.self
    /\ UNCHANGED <<files, cache, reads, kbres, identifier, lookup, planner, adapter, repo, threads, log>>

CallFindEffectsForPrinciples ==
    /\ Idle
    /\ \E principle_ids \in SeqsUpTo(RepeatPrincipleIds, MaxIds),
          domain_keywords \in RepeatDomainKeywords :
          LET o == FindEffectsCall(lookup, principle_ids, domain_keywords)
          IN /\ call' = [op |-> "find_effects_for_principles",
                         args |-> <<principle_ids, domain_keywords>>,
                         result |-> o.result, args_after |-> o.args, self_before |-> lookup]
             /\ lookup' = o.self
    /\ UNCHANGED <<files, cache, reads, kbres, identifier, selector, planner, adapter, repo, threads, log>>

CallAdaptConcepts ==
    /\ Idle
    /\ \E concepts \in SeqsUpTo(ConceptPool, MaxConcepts), context \in ContextPool,
          num_adaptations \in NumAdaptations :
          LET o == AdaptConceptsCall(planner, concepts, context, num_adaptations)
          IN /\ call' = [op |-> "adapt_concepts",
                         args |-> <<concepts, context, num_adaptations>>,
                         result |-> o.result, args_after |-> o.args, self_before |-> planner]
             /\ planner' = o.self
    /\ UNCHANGED <<files, cache, reads, kbres, identifier, selector, lookup, adapter, repo, threads, log>>

\* The caller keeps the outcome to compare a later call with.
Remember ==
    /\ ~Idle
    /\ log' = call
    /\ call' = NoCall
    /\ UNCHANGED <<files, cache, reads, kbres, identifier, selector, lookup, planner, adapter, repo, threads>>

RepeatFileSystems ==
    {f \in PipelineFileSystems : f.principles.entries = PrincipleList({15})}

InitRepeat ==
    /\ files \in RepeatFileSystems
    /\ cache = [l \in Loaders |-> NewLoader]
    /\ reads = NoReads
    /\ kbres = NoResult
    /\ identifier = ContradictionIdentifierInit(files.parameters)
    /\ selector = PrincipleSelectorInit(files.principles)
    /\ call = NoCall
    /\ lookup = EffectsLookupInit
    /\ planner = AdaptationPlannerInit
    /\ adapter = NoAdapter
    /\ repo = NoRepo
    /\ threads = NoThreads
    /\ log = NoCall

NextRepeat ==
    \/ CallSelectPrinciples
    \/ CallFindEffectsForPrinciples
    \/ CallAdaptConcepts
    \/ Remember
    \/ Return

SpecRepeat == InitRepeat /\ [][NextRepeat]_vars

\* The Effects Lookup alone.
NextEffects ==
    \/ FindEffectsForPrinciples
    \/ FindEffectsForContradiction
    \/ Return

SpecEffects == InitRepeat /\ [][NextEffects]_vars

\* The Contradiction Identifier alone.
NextIdentifier ==
    \/ MatchKeywordToParameters
    \/ IdentifyContradiction
    \/ Return

SpecIdentifier == InitPipeline /\ [][NextIdentifier]_vars

(***************************************************************************)
(* ConceptGenerator.  A concept keeps the identifiers, the labels and the  *)
(* lists the ranking reads; the description and the implementation steps,  *)
(* templated texts no decision reads, are kept as their parts.             *)
(***************************************************************************)
\* f"{n:03d}"
Str(n) == IF n < 10 THEN <<Digit(n)>> ELSE <<Digit(n \div 10), Digit(n % 10)>>

ZeroPad3(n) ==
    IF n < 10 THEN <<"0", "0">> \o Str(n) ELSE IF n < 100 THEN <<"0">> \o Str(n) ELSE Str(n)

ConceptId(concept_number) == <<"c", "o", "n", "c", "e", "p", "t", "_">> \o ZeroPad3(concept_number)

\* The five title templates; random.choice returns any of them.
title_templates(principle_name, effect_name) ==
    << principle_name \o <<" ", "w", "i", "t", "h", " ">> \o effect_name,
       effect_name \o <<"-", "E", "n", "h", "a", "n", "c", "e", "d", " ">> \o principle_name,
       <<"D", "y", "n", "a", "m", "i", "c", " ">> \o principle_name \o <<" ", "u", "s", "i", "n", "g", " ">> \o effect_name,
       <<"A", "d", "a", "p", "t", "i", "v", "e", " ">> \o principle_name \o <<" ", "v", "i", "a", " ">> \o effect_name,
       <<"S", "m", "a", "r", "t", " ">> \o principle_name \o <<" ", "t", "h", "r", "o", "u", "g", "h", " ">> \o effect_name >>

_generate_concept_title(principle_name, effect_name) ==
    Range(title_templates(principle_name, effect_name))

_generate_concept_description(principle, effect, problem_context) ==
    [branch |-> IF principle.id = 15 THEN "dynamic"
                ELSE IF principle.id \in {1, 2, 3} THEN "separate" ELSE "combine",
     system |-> Get(problem_context, "technical_system",
                    << <<"t", "h", "e", " ", "s", "y", "s", "t", "e", "m">> >>),
     improvement |-> Get(problem_context, "desired_improvement", <<<<"p", "e", "r", "f", "o", "r", "m", "a", "n", "c", "e">>>>),
     constraint |-> Get(problem_context, "constraint", <<<<"c", "o", "n", "s", "t", "r", "a", "i", "n", "t", "s">>>>),
     hint |-> IF effect.applications # <<>> THEN <<Lower(effect.applications[1])>> ELSE None]

_generate_implementation_steps(principle, effect) ==
    << "1. Analyze", "2. Identify", "3. Design", "4. Prototype", "5. Test", "6. Optimize",
       "7. Scale up" >>

NameHas(effect, word) == Contains(word, Lower(effect.name))

_generate_advantages(principle, effect) ==
    SliceTo(
        (IF principle.id = 15
         THEN << "Adaptive response to changing conditions",
                 "Optimal performance across operating range",
                 "Reduced need for manual adjustments" >>
         ELSE IF principle.id = 1
         THEN << "Modular design enables easy maintenance",
                 "Independent optimization of components",
                 "Fault isolation and graceful degradation" >>
         ELSE IF principle.id = 35
         THEN << "Multi-state operation capabilities", "Phase-based functionality",
                 "Enhanced system flexibility" >>
         ELSE <<>>)
        \o (IF NameHas(effect, <<"t", "h", "e", "r", "m", "a", "l">>) THEN <<"Temperature-responsive behavior">> ELSE <<>>)
        \o (IF NameHas(effect, <<"p", "i", "e", "z", "o">>)
            THEN <<"Energy harvesting from mechanical stress">> ELSE <<>>)
        \o (IF NameHas(effect, <<"s", "h", "a", "p", "e", " ", "m", "e", "m", "o", "r", "y">>)
            THEN <<"Temperature-activated shape recovery">> ELSE <<>>)
        \o << "Systematic approach based on proven TRIZ methodology",
              "Integration of scientific principles with engineering practice",
              "Potential for patentable innovation" >>,
        5)

_generate_challenges(principle, effect) ==
    SliceTo(
        (IF principle.id = 15 THEN <<"Complexity of dynamic control systems">>
         ELSE IF principle.id \in {36, 35} THEN <<"Precise control of transition conditions">>
         ELSE IF principle.id = 1 THEN <<"Integration complexity of multiple segments">>
         ELSE <<>>)
        \o (IF NameHas(effect, <<"t", "h", "e", "r", "m", "a", "l">>)
            THEN <<"Temperature sensitivity and thermal management">> ELSE <<>>)
        \o (IF NameHas(effect, <<"q", "u", "a", "n", "t", "u", "m">>)
            THEN <<"Scale-up challenges from quantum effects">> ELSE <<>>)
        \o (IF NameHas(effect, <<"n", "a", "n", "o">>)
            THEN <<"Manufacturing and stability of nanostructures">> ELSE <<>>)
        \o << "Development time and testing requirements",
              "Cost of implementing new technology",
              "Integration with existing systems" >>,
        4)

_assess_complexity(principle, effect) ==
    LET base == IF principle.id \in {1, 8, 13} THEN 1
                ELSE IF principle.id \in {15, 35, 36} THEN 3 ELSE 2
        complexity_score ==
            base + (IF NameHas(effect, <<"q", "u", "a", "n", "t", "u", "m">>) \/ NameHas(effect, <<"n", "a", "n", "o">>) THEN 2
                    ELSE IF NameHas(effect, <<"t", "h", "e", "r", "m", "a", "l">>) \/ NameHas(effect, <<"s", "h", "a", "p", "e", " ", "m", "e", "m", "o", "r", "y">>)
                         THEN 1 ELSE 0)
    IN IF complexity_score <= 2 THEN "Low"
       ELSE IF complexity_score <= 4 THEN "Medium" ELSE "High"

rare_combinations ==
    { <<15, "quantum_tunneling">>, <<35, "shape_memory">>, <<18, "sonoluminescence">>,
      <<36, "superconductivity">> }

_assess_innovation_level(principle, effect) ==
    IF <<principle.id, effect.id>> \in rare_combinations THEN "Breakthrough"
    ELSE IF principle.id \in {15, 35, 36} \/ effect.id \in {"quantum_tunneling", "shape_memory"}
         THEN "Radical" ELSE "Incremental"

\* The domains collected for a concept.  The caller guarantees that the
\* technical system is a string.
ApplicableDomains(principle, effect, system) ==
    Range(effect.technical_domains)
    \cup (IF \/ Contains(<<"a", "u", "t", "o", "m", "o", "t", "i", "v", "e">>, system) \/ Contains(<<"c", "a", "r">>, system)
             \/ Contains(<<"v", "e", "h", "i", "c", "l", "e">>, system)
          THEN {<<"A", "u", "t", "o", "m", "o", "t", "i", "v", "e">>, <<"T", "r", "a", "n", "s", "p", "o", "r", "t", "a", "t", "i", "o", "n">>} ELSE {})
    \cup (IF \/ Contains(<<"a", "e", "r", "o", "s", "p", "a", "c", "e">>, system) \/ Contains(<<"a", "i", "r", "c", "r", "a", "f", "t">>, system)
             \/ Contains(<<"p", "l", "a", "n", "e">>, system)
          THEN {<<"A", "e", "r", "o", "s", "p", "a", "c", "e">>, <<"A", "v", "i", "a", "t", "i", "o", "n">>} ELSE {})
    \cup (IF Contains(<<"m", "e", "d", "i", "c", "a", "l">>, system) \/ Contains(<<"h", "e", "a", "l", "t", "h">>, system)
          THEN {<<"M", "e", "d", "i", "c", "a", "l">>, <<"H", "e", "a", "l", "t", "h", "c", "a", "r", "e">>} ELSE {})
    \cup (IF principle.id \in {15, 35} THEN {<<"R", "o", "b", "o", "t", "i", "c", "s">>, <<"A", "u", "t", "o", "m", "a", "t", "i", "o", "n">>} ELSE {})

\* list(domains)[:4]: a set is listed in an order the program does not fix,
\* so any four of more than four domains may be kept.  The outcomes, each
\* kept as a set; None.lower() raises AttributeError.
_determine_applicable_domains(principle, effect, problem_context) ==
    LET technical_system == Get(problem_context, "technical_system", << <<>> >>)
    IN IF technical_system = None THEN [status |-> "raised", exc |-> "AttributeError"]
       ELSE LET domains == ApplicableDomains(principle, effect, Lower(technical_system[1]))
            IN [status |-> "returned",
                outcomes |-> {kept \in SUBSET domains :
                                 Cardinality(kept) = Min(4, Cardinality(domains))}]

\* The concepts _generate_single_concept may return, or the exception.
_generate_single_concept(principle, effect, problem_context, concept_number) ==
    LET domains == _determine_applicable_domains(principle, effect, problem_context)
    IN IF domains.status = "raised" THEN domains
       ELSE [status |-> "returned",
             outcomes |->
                 {[concept_id |-> ConceptId(concept_number),
                   title |-> title,
                   description |-> _generate_concept_description(principle, effect,
                                                                 problem_context),
                   principles_used |-> <<principle.id>>,
                   effects_used |-> <<effect.id>>,
                   implementation_steps |-> _generate_implementation_steps(principle, effect),
                   advantages |-> _generate_advantages(principle, effect),
                   potential_challenges |-> _generate_challenges(principle, effect),
                   domain_applications |-> kept,
                   estimated_complexity |-> _assess_complexity(principle, effect),
                   innovation_level |-> _assess_innovation_level(principle, effect)] :
                     title \in _generate_concept_title(principle.name, effect.name),
                     kept \in domains.outcomes}]

\* The sums of _assess_innovation_potential are floating-point sums of tenths.
\* Most equal the double nearest to the decimal sum; the ones below differ
\* from it by one unit in the last place, and so compare unequal to other
\* sums of the same decimal value.  The entries are the innovation and
\* complexity weights in tenths and the two list lengths.
RoundedUp ==
    {
      <<10, 5, 3, 2>>, <<10, 5, 3, 3>>, <<10, 8, 0, 1>>, <<10, 8, 2, 1>>,
      <<10, 8, 2, 2>>, <<10, 8, 3, 0>>, <<10, 8, 3, 1>>, <<10, 8, 3, 2>>,
      <<10, 8, 3, 4>>, <<10, 8, 4, 2>>, <<10, 8, 4, 3>>, <<10, 10, 1, 1>>,
      <<10, 10, 1, 2>>, <<10, 10, 3, 2>>, <<10, 10, 3, 3>>, <<20, 5, 1, 1>>,
      <<20, 5, 1, 2>>, <<20, 5, 3, 2>>, <<20, 5, 3, 3>>, <<20, 10, 1, 1>>,
      <<20, 10, 1, 2>>, <<20, 10, 3, 2>>, <<20, 10, 3, 3>>, <<30, 5, 1, 1>>,
      <<30, 5, 1, 2>>, <<30, 5, 1, 4>>, <<30, 8, 2, 4>>, <<30, 8, 3, 2>>,
      <<30, 8, 3, 4>>, <<30, 10, 1, 4>>, <<30, 10, 2, 2>>, <<30, 10, 2, 4>> }

RoundedDown ==
    {
      <<10, 5, 4, 3>>, <<10, 5, 4, 4>>, <<10, 8, 5, 3>>, <<10, 8, 5, 4>>,
      <<10, 10, 4, 3>>, <<10, 10, 4, 4>>, <<20, 5, 4, 3>>, <<20, 5, 4, 4>>,
      <<20, 8, 0, 3>>, <<20, 8, 0, 4>>, <<20, 8, 2, 0>>, <<20, 8, 2, 4>>,
      <<20, 8, 4, 0>>, <<20, 8, 4, 1>>, <<20, 8, 4, 3>>, <<20, 8, 4, 4>>,
      <<30, 5, 3, 1>>, <<30, 5, 3, 3>>, <<30, 5, 4, 1>>, <<30, 8, 4, 1>>,
      <<30, 8, 4, 3>>, <<30, 8, 5, 1>>, <<30, 10, 3, 1>>, <<30, 10, 3, 3>>,
      <<30, 10, 4, 1>> }

\* The score as a number that orders as the floating-point sums do: four
\* times the tenths, one more or less where the sum is rounded up or down.
_assess_innovation_potential(concept) ==
    LET innovation == CASE concept.innovation_level = "Incremental" -> 10
                        [] concept.innovation_level = "Radical" -> 20
                        [] concept.innovation_level = "Breakthrough" -> 30
                        [] OTHER -> 10
        complexity == CASE concept.estimated_complexity = "Low" -> 5
                        [] concept.estimated_complexity = "Medium" -> 10
                        [] concept.estimated_complexity = "High" -> 8
                        [] OTHER -> 5
        advantages == Len(concept.advantages)
        domains == Cardinality(concept.domain_applications)
        parts == <<innovation, complexity, advantages, domains>>
    IN 4 * (innovation + complexity + 2 * advantages + domains)
           + (IF parts \in RoundedUp THEN 1 ELSE IF parts \in RoundedDown THEN -1 ELSE 0)

\* The loop of generate_concepts from iteration i on: the lists of concepts
\* it may append, or the exception that ends it.
RECURSIVE GenerateFrom(_, _, _, _, _)
GenerateFrom(i, count, principles, effects, problem_context) ==
    IF i >= count THEN [status |-> "returned", outcomes |-> {<<>>}]
    ELSE LET one == _generate_single_concept(principles[(i % Len(principles)) + 1],
                                             effects[(i % Len(effects)) + 1],
                                             problem_context, i + 1)
         IN IF one.status = "raised" THEN one
            ELSE LET rest == GenerateFrom(i + 1, count, principles, effects, problem_context)
                 IN IF rest.status = "raised" THEN rest
                    ELSE [status |-> "returned",
                          outcomes |-> {<<c>> \o cs : c \in one.outcomes, cs \in rest.outcomes}]

\* concepts.sort(key=self._assess_innovation_potential, reverse=True)
RankedByPotential(concepts) ==
    LET scored == [k \in DOMAIN concepts |->
                      [concept |-> concepts[k],
                       score |-> _assess_innovation_potential(concepts[k])]]
        sorted == SortDescending(scored, "score")
    IN [k \in DOMAIN sorted |-> sorted[k].concept]

\* The results generate_concepts may return, or the exception it raises.
generate_concepts(principles, effects, problem_context, num_concepts) ==
    LET generated == GenerateFrom(0, Min(num_concepts, Len(principles) * Len(effects)),
                                  principles, effects, problem_context)
    IN IF generated.status = "raised" THEN {generated}
       ELSE {LET concepts == RankedByPotential(cs)
             IN [status |-> "returned", exc |-> "",
                 concepts |-> concepts,
                 primary_concept |-> IF concepts # <<>> THEN <<concepts[1]>> ELSE None,
                 alternative_concepts |-> SubSeq(concepts, 2, Len(concepts)),
                 generation_metadata |->
                     [total_principles |-> Str(Len(principles)),
                      total_effects |-> Str(Len(effects)),
                      concepts_generated |-> Str(Len(concepts)),
                      generation_method |-> "principle_effect_combination"]] :
                 cs \in generated.outcomes}

\* The inputs of the concept generator: the dicts the command line builds
\* from the selector's and the lookup's results, and the parsed system.
PrincipleDict(i) == PrincipleEntry(i)

EffectDict(e, name) ==
    [id |-> e, name |-> name, technical_domains |-> technical_domains[e],
     applications |-> applications[e]]

thermal_expansion == EffectDict("thermal_expansion", <<"T", "h", "e", "r", "m", "a", "l", " ", "E", "x", "p", "a", "n", "s", "i", "o", "n">>)

shape_memory == EffectDict("shape_memory", <<"S", "h", "a", "p", "e", " ", "M", "e", "m", "o", "r", "y", " ", "E", "f", "f", "e", "c", "t">>)

piezoelectric == EffectDict("piezoelectric", <<"P", "i", "e", "z", "o", "e", "l", "e", "c", "t", "r", "i", "c", " ", "E", "f", "f", "e", "c", "t">>)

GeneratorPrinciples ==
    { <<>>, <<PrincipleDict(15)>>, <<PrincipleDict(1), PrincipleDict(15)>>,
      <<PrincipleDict(35), PrincipleDict(2), PrincipleDict(15)>> }

GeneratorEffects ==
    { <<>>, <<piezoelectric>>, <<shape_memory, thermal_expansion>> }

GeneratorContexts ==
    { EmptyDict, [technical_system |-> None],
      [technical_system |-> << <<"P", "u", "m", "p">> >>] }

\* "num_concepts: int = 3"
default_num_concepts == 3

ConceptCounts == 0..MaxConcepts \cup {default_num_concepts}

GenerateConcepts ==
    /\ Idle
    /\ \E principles \in GeneratorPrinciples, effects \in GeneratorEffects,
          problem_context \in GeneratorContexts, num_concepts \in ConceptCounts :
          \E result \in generate_concepts(principles, effects, problem_context, num_concepts) :
              call' = Outcome("generate_concepts",
                              <<principles, effects, problem_context, num_concepts>>, result)
    /\ UNCHANGED <<files, cache, reads, kbres, identifier, selector, lookup, planner, adapter, repo, threads, log>>

NextConcepts ==
    \/ GenerateConcepts
    \/ Return

SpecConcepts == InitRepeat /\ [][NextConcepts]_vars

(***************************************************************************)
(* The LLM adapters.  A call meets a world that the adapter does not       *)
(* control: whether the client library is installed, what the transport    *)
(* does, what the server answers.  The outcome of a call is the            *)
(* LLMResponse it returns or the exception that leaves it, with the        *)
(* number of requests it sent.                                             *)
(***************************************************************************)
LLMResponse(content, model, usage, metadata) ==
    [content |-> content, model |-> model, usage |-> usage, metadata |-> metadata]

Message(role, content) == [role |-> role, content |-> content]

\* BaseLLMAdapter.__init__
BaseLLMAdapterInit(config) ==
    [config |-> config,
     model |-> Get(config, "model", "default"),
     temperature |-> Get(config, "temperature", 7)]

\* JSON values as the adapter sees them after response.json().
JObject(fields) == [type |-> "object", fields |-> fields]

JArray == [type |-> "array"]

JString(text) == [type |-> "string", text |-> text]

\* value.get(key, default): only a dict has the method.
HasGet(value) == value.type = "object"

AdapterReturned(response, requests_sent) ==
    [status |-> "returned", exc |-> "", value |-> response, requests_sent |-> requests_sent]

AdapterRaised(exc, requests_sent) ==
    [status |-> "raised", exc |-> exc, value |-> EmptyDict, requests_sent |-> requests_sent]

OllamaAdapterInit(config) ==
    [kind |-> "ollama",
     model |-> BaseLLMAdapterInit(config).model,
     temperature |-> BaseLLMAdapterInit(config).temperature,
     base_url |-> Get(config, "base_url", "http://localhost:11434")]

\* response.raise_for_status()
RaisesForStatus(status_code) == status_code >= 400

\* The exceptions that "except requests.exceptions.RequestException" catches.
\* response.json() raises requests' JSONDecodeError, a RequestException, from
\* requests 2.27 on and a plain ValueError before; the project pins no version.
IsRequestException(exc) ==
    exc \in {"ConnectionError", "Timeout", "HTTPError", "requests.JSONDecodeError"}

\* requests.post, raise_for_status and response.json() in turn: the parsed
\* body, or the exception one of them raises.
PostJson(world) ==
    IF world.post.kind = "error"
    THEN [status |-> "raised", exc |-> world.post.exc, message |-> world.post.message]
    ELSE IF RaisesForStatus(world.post.status_code)
         THEN [status |-> "raised", exc |-> "HTTPError", message |-> <<"4", "0", "4", " ", "C", "l", "i", "e", "n", "t", " ", "E", "r", "r", "o", "r">>]
         ELSE IF world.post.body.kind = "not_json"
              THEN [status |-> "raised",
                    exc |-> IF world.json_error_is_request_exception
                            THEN "requests.JSONDecodeError" ELSE "ValueError",
                    message |-> <<"E", "x", "p", "e", "c", "t", "i", "n", "g", " ", "v", "a", "l", "u", "e">>]
              ELSE [status |-> "returned", result |-> world.post.body.value]

OllamaUsage(result) ==
    <<[prompt_tokens |-> Get(result.fields, "prompt_eval_count", 0),
       completion_tokens |-> Get(result.fields, "eval_count", 0)]>>

\* The try/except around the request, shared by generate and chat: content_of
\* is what the body of the try reads from the parsed result.
OllamaRequest(self, world, content_of) ==
    IF ~world.requests_installed
    THEN AdapterReturned(LLMResponse(<<"E", "r", "r", "o", "r", ":", " ", "r", "e", "q", "u", "e", "s", "t", "s", " ", "l", "i", "b", "r", "a", "r", "y", " ", "n", "o", "t", " ", "i", "n", "s", "t", "a", "l", "l", "e", "d">>, self.model,
                                     None, [error |-> "missing_dependency"]), 0)
    ELSE LET got == PostJson(world)
         IN IF got.status = "raised"
            THEN IF IsRequestException(got.exc)
                 THEN AdapterReturned(LLMResponse(<<"E", "r", "r", "o", "r", ":", " ">> \o got.message, self.model,
                                                  None, [error |-> got.message]), 1)
                 ELSE AdapterRaised(got.exc, 1)
            ELSE IF ~HasGet(got.result)
                 THEN AdapterRaised("AttributeError", 1)
                 ELSE IF content_of = "response"
                      THEN AdapterReturned(
                               LLMResponse(Get(got.result.fields, "response", JString(<<>>)).text,
                                           self.model, OllamaUsage(got.result),
                                           got.result.fields), 1)
                      ELSE LET message == Get(got.result.fields, "message", JObject(EmptyDict))
                           IN IF ~HasGet(message)
                              THEN AdapterRaised("AttributeError", 1)
                              ELSE AdapterReturned(
                                       LLMResponse(Get(message.fields, "content", JString(<<>>)).text,
                                                   self.model, OllamaUsage(got.result),
                                                   got.result.fields), 1)

OllamaGenerateCall(self, prompt, system_prompt, max_tokens, temperature, world) ==
    OllamaRequest(self, world, "response")

OllamaChatCall(self, messages, max_tokens, temperature, world) ==
    OllamaRequest(self, world, "message")

GeminiAdapterInit(config) ==
    [kind |-> "gemini",
     temperature |-> BaseLLMAdapterInit(config).temperature,
     api_key |-> Get(config, "api_key", ""),
     project_id |-> Get(config, "project_id", ""),
     location |-> Get(config, "location", "us-central1"),
     model |-> Get(config, "model", "gemini-1.5-pro"),
     use_vertex |-> Get(config, "use_vertex", FALSE),
     _client |-> "None",
     _client_type |-> "unset",
     _initialized |-> FALSE]

\* The adapter after the lazy initialization, and whether it succeeded.
_ensure_initialized(self, world) ==
    IF self._initialized THEN [ok |-> TRUE, self |-> self]
    ELSE IF ~world.sdk_installed THEN [ok |-> FALSE, self |-> self]
    ELSE IF ~self.use_vertex /\ self.api_key = "" THEN [ok |-> FALSE, self |-> self]
    ELSE IF world.sdk_init_raises THEN [ok |-> FALSE, self |-> self]
    ELSE [ok |-> TRUE,
          self |-> [self EXCEPT !._client = "GenerativeModel",
                                !._client_type = IF self.use_vertex THEN "vertex" ELSE "genai",
                                !._initialized = TRUE]]

GeminiUsage(reply) ==
    IF reply.has_usage_metadata
    THEN <<[prompt_tokens |-> reply.prompt_token_count,
            completion_tokens |-> reply.candidates_token_count,
            total_tokens |-> reply.prompt_token_count + reply.candidates_token_count]>>
    ELSE None

\* The try/except Exception around the request, shared by generate and chat.
GeminiRequest(init, world, metadata) ==
    IF ~init.ok
    THEN [self |-> init.self,
          outcome |-> AdapterReturned(
                          LLMResponse(<<"E", "r", "r", "o", "r", ":", " ", "G", "e", "m", "i", "n", "i", " ", "c", "l", "i", "e", "n", "t", " ", "n", "o", "t", " ", "i", "n", "i", "t", "i", "a", "l", "i", "z", "e", "d">>, init.self.model,
                                      None, [error |-> "initialization_failed"]), 0)]
    ELSE [self |-> init.self,
          outcome |->
              IF world.reply.kind = "error"
              THEN AdapterReturned(LLMResponse(<<"E", "r", "r", "o", "r", ":", " ">> \o world.reply.message, init.self.model,
                                               None, [error |-> world.reply.message]), 1)
              ELSE IF ~world.reply.text_available
                   THEN AdapterReturned(
                            LLMResponse(<<"E", "r", "r", "o", "r", ":", " ">> \o <<"n", "o", " ", "v", "a", "l", "i", "d", " ", "P", "a", "r", "t">>, init.self.model,
                                        None, [error |-> <<"n", "o", " ", "v", "a", "l", "i", "d", " ", "P", "a", "r", "t">>]), 1)
                   ELSE AdapterReturned(LLMResponse(world.reply.text, init.self.model,
                                                    GeminiUsage(world.reply), metadata), 1)]

GeminiGenerateCall(self, prompt, system_prompt, max_tokens, temperature, world) ==
    LET init == _ensure_initialized(self, world)
    IN GeminiRequest(init, world,
                     [provider |-> "google_gemini", client_type |-> init.self._client_type,
                      finish_reason |-> IF world.reply.kind = "reply" /\ world.reply.has_candidates
                                        THEN "STOP" ELSE "None"])

GeminiChatCall(self, messages, max_tokens, temperature, world) ==
    LET init == _ensure_initialized(self, world)
    IN GeminiRequest(init, world,
                     [provider |-> "google_gemini", client_type |-> init.self._client_type])

\* The worlds and the inputs of the adapter model.
ReplyTexts == {<<"o", "k">>, <<>>}

ErrorMessages == {<<"r", "e", "f", "u", "s", "e", "d">>, <<>>}

OllamaBodies ==
    {[kind |-> "not_json"], [kind |-> "json", value |-> JArray]}
    \cup {[kind |-> "json", value |-> JObject(fields)] :
             fields \in {EmptyDict,
                         [response |-> JString(<<"o", "k">>)],
                         [response |-> JString(<<"o", "k">>), eval_count |-> 3],
                         [message |-> JObject([role |-> JString(<<"a", "s", "s", "i", "s", "t", "a", "n", "t">>),
                                               content |-> JString(<<"o", "k">>)])],
                         [message |-> JString(<<"o", "k">>)]}}

OllamaPosts ==
    {[kind |-> "error", exc |-> e, message |-> m] :
         e \in {"ConnectionError", "Timeout"}, m \in ErrorMessages}
    \cup {[kind |-> "response", status_code |-> s, body |-> b] :
             s \in {200, 404}, b \in OllamaBodies}

OllamaWorlds ==
    [requests_installed : BOOLEAN, json_error_is_request_exception : BOOLEAN,
     post : OllamaPosts]

GeminiReplies ==
    {[kind |-> "error", message |-> m] : m \in ErrorMessages}
    \cup {[kind |-> "reply", text_available |-> a, text |-> t, has_usage_metadata |-> u,
           prompt_token_count |-> 2, candidates_token_count |-> 3, has_candidates |-> c] :
             a \in BOOLEAN, t \in ReplyTexts, u \in BOOLEAN, c \in BOOLEAN}

GeminiWorlds == [sdk_installed : BOOLEAN, sdk_init_raises : BOOLEAN, reply : GeminiReplies]

OllamaConfigs == {EmptyDict, [model |-> "mistral", base_url |-> "http://gpu:11434"]}

GeminiConfigs ==
    {EmptyDict, [api_key |-> "key"], [use_vertex |-> TRUE, project_id |-> "project"]}

Prompts == {<<"h", "i">>}

SystemPrompts == {None, <<<<"b", "e", " ", "b", "r", "i", "e", "f">>>>}

Conversations ==
    {<<>>, <<Message("user", <<"h", "i">>)>>,
     <<Message("system", <<"b", "e", " ", "b", "r", "i", "e", "f">>), Message("user", <<"h", "i">>)>>}

OllamaGenerate ==
    /\ Idle
    /\ adapter.kind = "ollama"
    /\ \E prompt \in Prompts, system_prompt \in SystemPrompts, world \in OllamaWorlds :
          call' = [op |-> "generate", args |-> <<prompt, system_prompt>>, world |-> world,
                   self_before |-> adapter,
                   result |-> OllamaGenerateCall(adapter, prompt, system_prompt, None, None, world)]
    /\ UNCHANGED <<files, cache, reads, kbres, identifier, selector, lookup, planner, adapter, repo, threads, log>>

OllamaChat ==
    /\ Idle
    /\ adapter.kind = "ollama"
    /\ \E messages \in Conversations, world \in OllamaWorlds :
          call' = [op |-> "chat", args |-> <<messages>>, world |-> world,
                   self_before |-> adapter,
                   result |-> OllamaChatCall(adapter, messages, None, None, world)]
    /\ UNCHANGED <<files, cache, reads, kbres, identifier, selector, lookup, planner, adapter, repo, threads, log>>

GeminiGenerate ==
    /\ Idle
    /\ adapter.kind = "gemini"
    /\ \E prompt \in Prompts, system_prompt \in SystemPrompts, world \in GeminiWorlds :
          LET o == GeminiGenerateCall(adapter, prompt, system_prompt, None, None, world)
          IN /\ call' = [op |-> "generate", args |-> <<prompt, system_prompt>>,
                         world |-> world, self_before |-> adapter,
                         result |-> o.outcome]
             /\ adapter' = o.self
    /\ UNCHANGED <<files, cache, reads, kbres, identifier, selector, lookup, planner, repo, threads, log>>

GeminiChat ==
    /\ Idle
    /\ adapter.kind = "gemini"
    /\ \E messages \in Conversations, world \in GeminiWorlds :
          LET o == GeminiChatCall(adapter, messages, None, None, world)
          IN /\ call' = [op |-> "chat", args |-> <<messages>>, world |-> world,
                         self_before |-> adapter, result |-> o.outcome]
             /\ adapter' = o.self
    /\ UNCHANGED <<files, cache, reads, kbres, identifier, selector, lookup, planner, repo, threads, log>>

InitAdapters ==
    /\ files \in RepeatFileSystems
    /\ cache = [l \in Loaders |-> NewLoader]
    /\ reads = NoReads
    /\ kbres = NoResult
    /\ identifier = ContradictionIdentifierInit(files.parameters)
    /\ selector = PrincipleSelectorInit(files.principles)
    /\ call = NoCall
    /\ lookup = EffectsLookupInit
    /\ planner = AdaptationPlannerInit
    /\ adapter \in {OllamaAdapterInit(config) : config \in OllamaConfigs}
                   \cup {GeminiAdapterInit(config) : config \in GeminiConfigs}
    /\ repo = NoRepo
    /\ threads = NoThreads
    /\ log = NoCall

NextAdapters ==
    \/ OllamaGenerate
    \/ OllamaChat
    \/ GeminiGenerate
    \/ GeminiChat
    \/ Return

SpecAdapters == InitAdapters /\ [][NextAdapters]_vars

(***************************************************************************)
(* ReportBuilder.build_report.  The arguments are Python dicts and lists   *)
(* of whatever the caller passes: a value under a key is None, a dict or   *)
(* an instance of a dataclass, and what an operation on it does depends on *)
(* which.  A text the code formats is its template's first words and the   *)
(* values it puts in.                                                      *)
(***************************************************************************)
PyNone == [type |-> "NoneType"]

PyDict(fields) == [type |-> "dict", fields |-> fields]

\* An instance of a dataclass: it has no get method and no subscript.
PyObject == [type |-> "object"]

\* bool(value)
Truthy(value) ==
    value.type = "object" \/ (value.type = "dict" /\ DOMAIN value.fields # {})

Built(value) == [status |-> "returned", exc |-> "", value |-> value]

Failed(exc) == [status |-> "raised", exc |-> exc, value |-> EmptyDict]

\* The outcome of a loop over outcomes: the first one that raised, if any.
FirstRaised(outcomes) ==
    LET bad == {i \in DOMAIN outcomes : outcomes[i].status = "raised"}
    IN IF bad = {} THEN <<>>
       ELSE <<outcomes[CHOOSE i \in bad : \A j \in bad : i <= j]>>

ReportSection(title, content, section_type, importance) ==
    [title |-> title, content |-> content, section_type |-> section_type,
     importance |-> importance]

Text(text, parts) == [text |-> text, parts |-> parts]

_build_problem_summary_section(problem_text, contradiction_result) ==
    IF "context" \in DOMAIN contradiction_result
           /\ contradiction_result["context"].type # "dict"
    THEN Failed("AttributeError")
    ELSE LET ctx == IF "context" \in DOMAIN contradiction_result
                    THEN contradiction_result["context"].fields
                    ELSE EmptyDict
         IN Built(ReportSection("Problem Analysis",
                      Text("**Original Problem:**",
                           <<problem_text,
                             Get(ctx, "technical_system", "Not specified"),
                             Get(ctx, "desired_improvement", "Not specified"),
                             Get(ctx, "constraints", "Not specified")>>),
                      "analysis", "high"))

\* The contradiction section built without the "if not primary" test.
ContradictionSectionWithoutCheck(contradiction_result) ==
    LET primary == Get(contradiction_result, "primary_contradiction", PyDict(EmptyDict))
    IN IF primary.type # "dict" THEN Failed("AttributeError")
       ELSE Built(ReportSection("Technical Contradiction Analysis",
                      Text("**Primary Contradiction:**",
                           <<Get(primary.fields, "improving_parameter_name", "Unknown"),
                             Get(primary.fields, "worsening_parameter_name", "Unknown")>>),
                      "analysis", "high"))

_build_contradiction_section(contradiction_result) ==
    LET primary == Get(contradiction_result, "primary_contradiction", PyDict(EmptyDict))
    IN IF ~Truthy(primary)
       THEN Built(ReportSection("Technical Contradiction Analysis",
                      Text("No clear technical contradiction identified.", <<>>),
                      "analysis", "high"))
       ELSE IF primary.type # "dict" THEN Failed("AttributeError")
       ELSE Built(ReportSection("Technical Contradiction Analysis",
                      Text("**Primary Contradiction:**",
                           <<Get(primary.fields, "improving_parameter_name", "Unknown"),
                             Get(primary.fields, "worsening_parameter_name", "Unknown"),
                             Get(primary.fields, "confidence_score", 0),
                             Get(primary.fields, "reasoning",
                                 "Systematic TRIZ analysis performed."),
                             Len(Get(contradiction_result, "alternative_contradictions",
                                     <<>>))>>),
                      "analysis", "high"))

\* principle['principle_id'] and principle['principle_name'] of one entry.
FormatPrinciple(principle) ==
    IF principle.type # "dict" THEN Failed("TypeError")
    ELSE IF ~({"principle_id", "principle_name"} \subseteq DOMAIN principle.fields)
    THEN Failed("KeyError")
    ELSE Built(<<principle.fields.principle_id, principle.fields.principle_name,
                 Get(principle.fields, "relevance_score", 0)>>)

_format_principles(principles) ==
    IF principles = <<>> THEN Built(Text("None identified", <<>>))
    ELSE LET formatted == [i \in DOMAIN principles |-> FormatPrinciple(principles[i])]
         IN IF FirstRaised(formatted) # <<>> THEN FirstRaised(formatted)[1]
            ELSE Built(Text("Principle", [i \in DOMAIN formatted |-> formatted[i].value]))

\* One "Principle Set" block of the principles section.
PrincipleSet(result) ==
    LET primary == _format_principles(Get(result, "primary_principles", <<>>))
        supporting == _format_principles(Get(result, "supporting_principles", <<>>))
    IN IF primary.status = "raised" THEN primary
       ELSE IF supporting.status = "raised" THEN supporting
       ELSE Built([primary |-> primary.value, supporting |-> supporting.value,
                   source |-> Get(result, "matrix_source", "TRIZ methodology")])

_build_principles_section(principle_results) ==
    IF principle_results = <<>>
    THEN Built(ReportSection("Recommended TRIZ Principles",
                   Text("No principle recommendations generated.", <<>>),
                   "recommendation", "high"))
    ELSE LET sets == [i \in DOMAIN principle_results |-> PrincipleSet(principle_results[i])]
         IN IF FirstRaised(sets) # <<>> THEN FirstRaised(sets)[1]
            ELSE Built(ReportSection("Recommended TRIZ Principles",
                           Text("### Principle Set", [i \in DOMAIN sets |-> sets[i].value]),
                           "recommendation", "high"))

\* One effect block: effect['name'], effect['category'] and
\* effect['applications'] must be there.
EffectBlock(effect) ==
    IF ~({"name", "category", "applications"} \subseteq DOMAIN effect)
    THEN Failed("KeyError")
    ELSE Built([name |-> effect.name, category |-> effect.category,
                relevance |-> Get(effect, "relevance_score", 0),
                applications |-> SliceTo(effect.applications, 2),
                related_principles |-> SliceTo(Get(effect, "related_principles", <<>>), 3)])

_build_effects_section(effects) ==
    IF effects = <<>>
    THEN Built(ReportSection("Scientific Effects Integration",
                   Text("No scientific effects identified for this solution.", <<>>),
                   "analysis", "medium"))
    ELSE LET blocks == [i \in DOMAIN SliceTo(effects, 5) |-> EffectBlock(effects[i])]
         IN IF FirstRaised(blocks) # <<>> THEN FirstRaised(blocks)[1]
            ELSE Built(ReportSection("Scientific Effects Integration",
                           Text("**name**", [i \in DOMAIN blocks |-> blocks[i].value]),
                           "analysis", "medium"))

\* One concept block: concept['title'], concept['concept_id'] and
\* concept['description'] must be there.
ConceptBlock(concept) ==
    IF ~({"title", "concept_id", "description"} \subseteq DOMAIN concept)
    THEN Failed("KeyError")
    ELSE Built([title |-> concept.title, concept_id |-> concept.concept_id,
                innovation_level |-> Get(concept, "innovation_level", "Not assessed"),
                complexity |-> Get(concept, "estimated_complexity", "Not assessed"),
                description |-> concept.description])

_build_concepts_section(concepts) ==
    IF concepts = <<>>
    THEN Built(ReportSection("Solution Concepts",
                   Text("No solution concepts generated.", <<>>),
                   "recommendation", "high"))
    ELSE LET blocks == [i \in DOMAIN SliceTo(concepts, 3) |-> ConceptBlock(concepts[i])]
         IN IF FirstRaised(blocks) # <<>> THEN FirstRaised(blocks)[1]
            ELSE Built(ReportSection("Solution Concepts",
                           Text("### title", [i \in DOMAIN blocks |-> blocks[i].value]),
                           "recommendation", "high"))

\* One adapted-concept block: concept['adapted_title'] must be there.
AdaptedBlock(concept) ==
    IF concept.type # "dict" THEN Failed("TypeError")
    ELSE IF "adapted_title" \notin DOMAIN concept.fields THEN Failed("KeyError")
    ELSE Built([adapted_title |-> concept.fields.adapted_title,
                confidence |-> Get(concept.fields, "adaptation_confidence", 0)])

_build_adaptation_section(adaptation_result) ==
    LET context == Get(adaptation_result, "context", PyDict(EmptyDict))
        adapted_concepts == Get(adaptation_result, "adapted_concepts", <<>>)
        blocks == [i \in DOMAIN adapted_concepts |-> AdaptedBlock(adapted_concepts[i])]
    IN IF context.type # "dict" THEN Failed("AttributeError")
       ELSE IF FirstRaised(blocks) # <<>> THEN FirstRaised(blocks)[1]
       ELSE Built(ReportSection("Context-Adapted Solutions",
                      Text("**Adaptation Context:**",
                           <<Get(context.fields, "industry", "Not specified"),
                             Get(context.fields, "company_size", "Not specified"),
                             Get(context.fields, "budget_level", "Not specified"),
                             Get(context.fields, "timeline", "Not specified"),
                             Get(context.fields, "technical_expertise", "Not specified"),
                             [i \in DOMAIN blocks |-> blocks[i].value]>>),
                      "implementation", "medium"))

general_conclusions ==
    << Text("TRIZ methodology provides systematic approach to inventive problem solving.",
            <<>>),
       Text("Scientific effects integration enhances solution creativity and feasibility.",
            <<>>),
       Text("Context adaptation ensures practical implementation within constraints.",
            <<>>) >>

_generate_conclusions(contradiction_result, concepts, adaptation_result) ==
    LET primary == Get(contradiction_result, "primary_contradiction", PyNone)
        breakthrough_count ==
            Cardinality({i \in DOMAIN concepts :
                            Get(concepts[i], "innovation_level", "Incremental")
                                = "Breakthrough"})
        recommended == Get(adaptation_result, "recommended_concept", PyNone)
    IN IF Truthy(primary) /\ primary.type # "dict" THEN Failed("AttributeError")
       ELSE IF Truthy(recommended) /\ recommended.type # "dict"
       THEN Failed("AttributeError")
       ELSE Built(
           (IF Truthy(primary)
            THEN <<Text("The primary technical contradiction between",
                        <<Get(primary.fields, "improving_parameter_name", "improvement"),
                          Get(primary.fields, "worsening_parameter_name", "constraint")>>)>>
            ELSE <<>>)
           \o (IF concepts = <<>> THEN <<>>
               ELSE IF breakthrough_count > 0
               THEN <<Text("Generated breakthrough concepts", <<breakthrough_count>>)>>
               ELSE <<Text("Generated practical solution concepts with immediate applicability.",
                           <<>>)>>)
           \o (IF Truthy(recommended)
               THEN <<Text("Recommended concept",
                           <<Get(recommended.fields, "adapted_title", "N/A"),
                             Get(recommended.fields, "adaptation_confidence", 0)>>)>>
               ELSE <<>>)
           \o general_conclusions)

fixed_next_steps ==
    << "1. Review the recommended solution concept in detail",
       "2. Assess resource requirements and timeline feasibility",
       "3. Develop detailed implementation plan with milestones",
       "4. Create prototype or pilot program",
       "5. Test and validate the solution in real-world conditions",
       "6. Monitor performance and iterate as needed" >>

\* list.insert(1, item)
InsertAt1(list, item) == <<Head(list), item>> \o Tail(list)

_generate_next_steps(adaptation_result) ==
    LET context == Get(adaptation_result, "context", PyDict(EmptyDict))
    IN IF context.type # "dict" THEN Failed("AttributeError")
       ELSE LET timeline == Get(context.fields, "timeline", "None")
                budget_level == Get(context.fields, "budget_level", "None")
                after_timeline ==
                    IF timeline = "short"
                    THEN InsertAt1(fixed_next_steps,
                                   "Prioritize quick wins and immediate benefits")
                    ELSE fixed_next_steps
            IN Built(IF budget_level = "low"
                     THEN InsertAt1(after_timeline,
                                    "Focus on cost-effective implementation options")
                     ELSE after_timeline)

pipeline_steps ==
    <<"contradiction_id", "principle_selection", "effects_lookup", "concept_generation",
      "adaptation">>

summary_limit == 200

\* build_report: the six sections are built in order, then the conclusions
\* and the next steps; the first exception ends the call.  now_id and
\* now_stamp are the two readings of the clock.
build_report(problem_text, contradiction_result, principle_results, effects, concepts, adaptation_result, now_id, now_stamp) ==
    LET built ==
            << _build_problem_summary_section(problem_text, contradiction_result),
               _build_contradiction_section(contradiction_result),
               _build_principles_section(principle_results),
               _build_effects_section(effects),
               _build_concepts_section(concepts),
               _build_adaptation_section(adaptation_result),
               _generate_conclusions(contradiction_result, concepts, adaptation_result),
               _generate_next_steps(adaptation_result) >>
    IN IF FirstRaised(built) # <<>> THEN FirstRaised(built)[1]
       ELSE Built(
           [report_id |-> <<"HEINRICH_", now_id>>,
            timestamp |-> now_stamp,
            problem_summary |->
                IF Len(problem_text) > summary_limit
                THEN SubSeq(problem_text, 1, summary_limit) \o <<".", ".", ".">>
                ELSE problem_text,
            sections |-> [i \in 1..6 |-> built[i].value],
            conclusions |-> built[7].value,
            next_steps |-> built[8].value,
            metadata |->
                [analysis_version |-> "1.0",
                 pipeline_steps |-> pipeline_steps,
                 total_principles_considered |-> Len(principle_results),
                 total_effects_considered |-> Len(effects),
                 total_concepts_generated |-> Len(concepts),
                 adaptation_context |->
                     Get(adaptation_result, "context", PyDict(EmptyDict))]])

\* The arguments build_report is called with.
ReportProblemTexts ==
    { <<>>, <<"P", "u", "m", "p">>, [i \in 1..(summary_limit + 1) |-> "x"] }

ReportContradictions ==
    { EmptyDict,
      [primary_contradiction |-> PyNone],
      [primary_contradiction |-> PyDict(EmptyDict)],
      [primary_contradiction |->
           PyDict([improving_parameter_name |-> "Speed",
                   worsening_parameter_name |-> "Use of energy",
                   confidence_score |-> Pct(80)]),
       alternative_contradictions |-> <<PyObject>>,
       context |-> PyDict([technical_system |-> "car"])],
      [primary_contradiction |-> PyObject],
      [context |-> PyNone] }

ReportPrincipleResults ==
    { <<>>,
      <<[matrix_source |-> "heuristic"]>>,
      <<[primary_principles |->
             <<PyDict([principle_id |-> 15, principle_name |-> "Dynamics",
                       relevance_score |-> Pct(80)])>>,
         supporting_principles |-> <<>>,
         matrix_source |-> "contradiction_matrix"]>>,
      <<[primary_principles |-> <<PyObject>>, supporting_principles |-> <<>>]>> }

ReportEffects ==
    { <<>>,
      <<[name |-> "Piezoelectric Effect", category |-> "electrical",
         applications |-> <<"sensors", "actuators", "igniters">>,
         relevance_score |-> Pct(50)]>>,
      <<[name |-> "Piezoelectric Effect"]>> }

ReportConcepts ==
    { <<>>,
      <<[concept_id |-> "concept_001", title |-> "T1", description |-> "D1",
         innovation_level |-> "Breakthrough"],
        [concept_id |-> "concept_002", title |-> "T2", description |-> "D2"]>>,
      <<[concept_id |-> "concept_001"]>> }

ReportAdaptations ==
    { EmptyDict,
      [adapted_concepts |-> <<>>, recommended_concept |-> PyNone],
      [context |-> PyDict([timeline |-> "short", budget_level |-> "low"]),
       adapted_concepts |-> <<>>],
      [context |-> PyDict([timeline |-> "short", budget_level |-> "high"])],
      [context |-> PyDict([timeline |-> "long", budget_level |-> "low"])],
      [context |-> PyDict([industry |-> "energy"]),
       adapted_concepts |-> <<PyDict([adapted_title |-> "Budget-Friendly T1",
                                      adaptation_confidence |-> Pct(50)])>>,
       recommended_concept |-> PyDict([adapted_title |-> "Budget-Friendly T1",
                                       adaptation_confidence |-> Pct(50)])],
      [adapted_concepts |-> <<PyObject>>, recommended_concept |-> PyObject] }

\* What datetime.now() reads.
Clock == {1, 2}

BuildReport ==
    /\ Idle
    /\ \E problem_text \in ReportProblemTexts,
          contradiction_result \in ReportContradictions,
          principle_results \in ReportPrincipleResults,
          effects \in ReportEffects,
          concepts \in ReportConcepts,
          adaptation_result \in ReportAdaptations,
          now_id \in Clock, now_stamp \in Clock :
          /\ now_id <= now_stamp
          /\ call' = Outcome("build_report",
                             <<problem_text, contradiction_result, principle_results,
                               effects, concepts, adaptation_result>>,
                             build_report(problem_text, contradiction_result,
                                          principle_results, effects, concepts,
                                          adaptation_result, now_id, now_stamp))
    /\ UNCHANGED <<files, cache, reads, kbres, identifier, selector, lookup, planner, adapter, repo, threads, log>>

NextReport ==
    \/ BuildReport
    \/ Return

SpecReport == InitRepeat /\ [][NextReport]_vars

(***************************************************************************)
(* TranslationSync (i18n/sync_translations.py).  A path is the list of its *)
(* components below the repository root; the content of a file is a        *)
(* version name, and its SHA256 digest is taken to tell two versions     *)
(* apart.  repo holds the files of the repository: the English files with  *)
(* their content, the translated files that exist, how each glossary       *)
(* parses, and the saved sync state.                                       *)
(***************************************************************************)
SUPPORTED_LANGUAGES == <<"en", "zh", "ru", "ar">>

CANONICAL_LANGUAGE == "en"

glossary_en == <<"i18n", "glossary_en.yaml">>

\* hashlib.sha256(content).hexdigest(); "" is <<>>.
Sha256(content) == <<content>>

_compute_file_hash(fs, file_path) ==
    IF fs.english[file_path] = "absent" THEN <<>> ELSE Sha256(fs.english[file_path])

\* str(rel_path).replace("/en/", "/<lang>/"): every component "en" between
\* two others is replaced, except one that directly follows a replaced one
\* (its leading slash is already used up).
RECURSIVE ReplacedAt(_, _)
ReplacedAt(path, i) ==
    /\ 1 < i
    /\ i < Len(path)
    /\ path[i] = "en"
    /\ ~ReplacedAt(path, i - 1)

TargetPath(rel_path, lang) ==
    [i \in DOMAIN rel_path |-> IF ReplacedAt(rel_path, i) THEN lang ELSE rel_path[i]]

\* Path.exists()
Exists(fs, path) ==
    \/ path \in DOMAIN fs.english /\ fs.english[path] # "absent"
    \/ path \in fs.translations

\* _load_sync_state: the saved state, or an empty one.
_load_sync_state(fs) ==
    IF fs.state_file # <<>> THEN fs.state_file[1]
    ELSE [file_hashes |-> EmptyDict, last_sync |-> "None"]

TranslationSyncInit(fs) == [sync_state |-> _load_sync_state(fs)]

\* The English files detect_changes looks at: the glossary if it exists and
\* the *.md files below docs/en.
CanonicalFiles(fs) == {f \in DOMAIN fs.english : fs.english[f] # "absent"}

\* detect_changes: the changes (the lists as sets, rglob having no fixed
\* order) and self with every canonical file's hash updated.
detect_changes(self, fs) ==
    LET stored_hash(f) == Get(self.sync_state.file_hashes, f, <<>>)
        seen == CanonicalFiles(fs)
    IN [changes |->
            [new |-> {f \in seen : stored_hash(f) = <<>>},
             modified |-> {f \in seen : /\ stored_hash(f) # <<>>
                                        /\ _compute_file_hash(fs, f) # stored_hash(f)},
             deleted |-> {}],
        self |->
            [sync_state |->
                [file_hashes |->
                     [f \in (DOMAIN self.sync_state.file_hashes) \cup seen |->
                         IF f \in seen THEN _compute_file_hash(fs, f)
                         ELSE self.sync_state.file_hashes[f]],
                 last_sync |-> self.sync_state.last_sync]]]

\* mark_outdated: it asks detect_changes itself and counts the existing
\* target files of the modified ones.
mark_outdated(self, fs) ==
    LET detected == detect_changes(self, fs)
        targets == {<<f, k>> \in detected.changes.modified \X (2..Len(SUPPORTED_LANGUAGES)) :
                       Exists(fs, TargetPath(f, SUPPORTED_LANGUAGES[k]))}
    IN [marked |-> Cardinality(targets), self |-> detected.self]

\* validate_glossaries: the languages with issues, or the exception of a
\* glossary file that does not hold a mapping.
validate_glossaries(fs) ==
    IF fs.english[glossary_en] = "absent" THEN Built({"en"})
    ELSE IF fs.glossaries["en"] = "empty" THEN Failed("AttributeError")
    ELSE LET read == {k \in 2..Len(SUPPORTED_LANGUAGES) :
                         \A j \in 2..(k - 1) : fs.glossaries[SUPPORTED_LANGUAGES[j]] # "empty"}
         IN IF \E k \in read : fs.glossaries[SUPPORTED_LANGUAGES[k]] = "empty"
            THEN Failed("AttributeError")
            ELSE Built({SUPPORTED_LANGUAGES[k] : k \in
                           {j \in read : fs.glossaries[SUPPORTED_LANGUAGES[j]]
                                             \in {"missing", "partial"}}})

\* _save_sync_state
_save_sync_state(self) ==
    <<[file_hashes |-> self.sync_state.file_hashes, last_sync |-> "now"]>>

\* sync: what it found and printed, and the state file after it.
sync(self, fs) ==
    LET detected == detect_changes(self, fs)
        total_changes ==
            Cardinality(detected.changes.new) + Cardinality(detected.changes.modified)
        outdated == mark_outdated(detected.self, fs)
        after == IF total_changes > 0 THEN outdated.self ELSE detected.self
        issues == validate_glossaries(fs)
    IN [status |-> issues.status,
        exc |-> issues.exc,
        changes |-> detected.changes,
        marked |-> IF total_changes > 0 THEN <<outdated.marked>> ELSE <<>>,
        state_file |-> IF issues.status = "raised" THEN fs.state_file
                       ELSE _save_sync_state(after)]

\* The repositories: the glossary and two documents in English, some
\* translations, and glossaries that parse or do not.
doc_a == <<"docs", "en", "a.md">>

doc_b == <<"docs", "en", "guide", "b.md">>

Contents == {"absent", "v1", "v2"}

TranslationSets ==
    { {},
      {<<"docs", "zh", "a.md">>},
      {<<"docs", "zh", "a.md">>, <<"docs", "ru", "a.md">>, <<"docs", "ar", "a.md">>,
       <<"docs", "ru", "guide", "b.md">>, <<"i18n", "glossary_zh.yaml">>} }

GlossaryStates ==
    { [lang \in {"en", "zh", "ru", "ar"} |-> "mapping"],
      [lang \in {"en", "zh", "ru", "ar"} |-> IF lang = "ru" THEN "empty" ELSE "partial"],
      [lang \in {"en", "zh", "ru", "ar"} |-> IF lang = "zh" THEN "mapping" ELSE "missing"] }

SyncRepos ==
    [kind : {"i18n"},
     english : [{glossary_en, doc_a, doc_b} -> Contents],
     translations : TranslationSets,
     glossaries : GlossaryStates,
     state_file : {<<>>}]

\* The command "sync" of the script: a TranslationSync is made for the
\* repository and sync() is called on it.
Sync ==
    /\ Idle
    /\ repo.kind = "i18n"
    /\ LET self == TranslationSyncInit(repo)
           result == sync(self, repo)
       IN /\ call' = [op |-> "sync", args |-> <<>>, self_before |-> self,
                      result |-> result]
          /\ repo' = [repo EXCEPT !.state_file = result.state_file]
    /\ UNCHANGED <<files, cache, reads, kbres, identifier, selector, lookup, planner, adapter, threads, log>>

\* The command "detect": detect_changes() on a new TranslationSync, and
\* nothing is saved.
Detect ==
    /\ Idle
    /\ repo.kind = "i18n"
    /\ LET self == TranslationSyncInit(repo)
       IN call' = [op |-> "detect", args |-> <<>>, self_before |-> self,
                   result |-> Built(detect_changes(self, repo).changes)]
    /\ UNCHANGED <<files, cache, reads, kbres, identifier, selector, lookup, planner, adapter, repo, threads, log>>

\* Somebody writes, creates or deletes an English file.
EditEnglish ==
    /\ Idle
    /\ repo.kind = "i18n"
    /\ \E f \in DOMAIN repo.english, content \in Contents :
          /\ content # repo.english[f]
          /\ repo' = [repo EXCEPT !.english[f] = content]
    /\ UNCHANGED <<files, cache, reads, kbres, identifier, selector, call, lookup, planner, adapter, threads, log>>

InitSync ==
    /\ files \in RepeatFileSystems
    /\ cache = [l \in Loaders |-> NewLoader]
    /\ reads = NoReads
    /\ kbres = NoResult
    /\ identifier = ContradictionIdentifierInit(files.parameters)
    /\ selector = PrincipleSelectorInit(files.principles)
    /\ call = NoCall
    /\ lookup = EffectsLookupInit
    /\ planner = AdaptationPlannerInit
    /\ adapter = NoAdapter
    /\ repo \in SyncRepos
    /\ threads = NoThreads
    /\ log = NoCall

NextSync ==
    \/ Sync
    \/ Detect
    \/ EditEnglish
    \/ Return

SpecSync == InitSync /\ [][NextSync]_vars

(***************************************************************************)
(* Properties of the pipeline components.                                  *)
(***************************************************************************)
SelectorCall == call.op = "select_principles"

\* The principles select_principles looks up for the call's two parameters.
ChosenIds ==
    IF <<call.args[1], call.args[2]>> \in DOMAIN selector.contradiction_matrix
    THEN selector.contradiction_matrix[<<call.args[1], call.args[2]>>]
    ELSE _heuristic_principle_selection(call.args[1], call.args[2])

RecommendedIds(recs) == {recs[i].principle_id : i \in DOMAIN recs}

\* C2: every select_principles call that has a principle to recommend (one of
\* the chosen ids is in the principle table) yields a result whose
\* recommendations are those principles, each in primary_principles and not
\* in supporting_principles when its relevance_score is at least 0.7, each in
\* supporting_principles and not in primary_principles when it is below 0.7,
\* none missing from or duplicated across the two lists.
C2_PrimarySupportingPartition ==
    (SelectorCall /\ Range(ChosenIds) \cap DOMAIN selector.principles # {})
        => LET res == call.result
               inPrimary(r) == \E i \in DOMAIN res.primary_principles :
                                   res.primary_principles[i] = r
               inSupporting(r) == \E i \in DOMAIN res.supporting_principles :
                                      res.supporting_principles[i] = r
           IN /\ res.status = "returned"
              /\ RecommendedIds(res.recommendations)
                     = Range(ChosenIds) \cap DOMAIN selector.principles
              /\ Len(res.primary_principles) + Len(res.supporting_principles)
                     = Len(res.recommendations)
              /\ \A i \in DOMAIN res.recommendations :
                    LET r == res.recommendations[i]
                    IN IF r.relevance_score >= Pct(70)
                       THEN inPrimary(r) /\ ~inSupporting(r)
                       ELSE inSupporting(r) /\ ~inPrimary(r)

\* C3: select_principles(9, 19) on the table of the 40 principles completes
\* and returns a result whose matrix_source is "contradiction_matrix" and
\* whose recommendations are the principles 15, 2, 35 and 18, one
\* recommendation for each.
C3_SpeedVersusEnergy ==
    (SelectorCall /\ call.args = <<9, 19>> /\ DOMAIN selector.principles = 1..40)
        => /\ call.result.status = "returned"
           /\ call.result.matrix_source = "contradiction_matrix"
           /\ Len(call.result.recommendations) = 4
           /\ RecommendedIds(call.result.recommendations) = {15, 2, 35, 18}

\* C4: find_effects_for_contradiction(9, 19, []) returns recommendations for
\* thermoelectric, capillary_action and aerogel, the effects param_to_effects
\* lists for parameter 19.
C4_EffectsOfParameter19 ==
    (call.op = "find_effects_for_contradiction" /\ call.args = <<9, 19, <<>> >>)
        => param_to_effects[19] \subseteq {r.effect : r \in call.result}

\* The edit distance by its recurrence: the fewest insertions, deletions and
\* substitutions of one character that turn s into t.
RECURSIVE EditDistance(_, _)
EditDistance(s, t) ==
    IF s = <<>> THEN Len(t)
    ELSE IF t = <<>> THEN Len(s)
    ELSE Min(EditDistance(Tail(s), Tail(t)) + (IF Head(s) = Head(t) THEN 0 ELSE 1),
             Min(EditDistance(Tail(s), t) + 1, EditDistance(s, Tail(t)) + 1))

\* a in b, for two strings.
IsSubstring(a, b) ==
    \E i \in 0..(Len(b) - Len(a)) : \A j \in 1..Len(a) : b[i + j] = a[j]

\* The score the tiers give a keyword against one parameter's keyword set; 0
\* stands for no match.
TierScore(keywords, keyword) ==
    IF keyword \in keywords THEN Pct(100)
    ELSE IF \E k \in keywords : IsSubstring(keyword, k) \/ IsSubstring(k, keyword)
         THEN Pct(70)
    ELSE IF \E k \in keywords : EditDistance(keyword, k) <= 2 THEN Pct(50)
    ELSE 0

MatcherCall == call.op = "_match_keyword_to_parameters"

\* C9: for every candidate keyword (compared in lower case) and every
\* parameter, _match_keyword_to_parameters returns the parameter once with
\* score 1.0 when the keyword is in the parameter's keyword set, otherwise
\* 0.7 when the keyword and some parameter keyword contain one another,
\* otherwise 0.5 when some parameter keyword is within edit distance 2, and
\* does not return the parameter otherwise; a returned score is one of 0.5,
\* 0.7 and 1.0.
C9_TieredMatching ==
    MatcherCall
        => LET keyword == Lower(call.args[1])
               matches == call.result
               tier(p) == TierScore(identifier.parameter_keywords[p], keyword)
           IN /\ \A i \in DOMAIN matches :
                    /\ matches[i].param_id \in DOMAIN identifier.parameter_keywords
                    /\ matches[i].score \in {Pct(50), Pct(70), Pct(100)}
                    /\ matches[i].score = tier(matches[i].param_id)
                    /\ \A j \in DOMAIN matches :
                          matches[j].param_id = matches[i].param_id => j = i
              /\ \A p \in DOMAIN identifier.parameter_keywords :
                    tier(p) # 0 => \E i \in DOMAIN matches : matches[i].param_id = p

\* One keyword matched in all three tiers, and a parameter left out.
C9_Witness ==
    /\ MatcherCall
    /\ {call.result[i].score : i \in DOMAIN call.result} = {Pct(50), Pct(70), Pct(100)}

InUnitInterval(score) == 0 <= score /\ score <= One

\* C10: every score an operation of the pipeline produces is within its
\* bounds: the confidence_score of every contradiction, the relevance_score
\* of select_principles and of both effect searches (principle_ids with
\* repeated ids and any domain keywords included) are in [0, 1], and the
\* adaptation confidence is in [0.1, 1.0].
C10_ScoresWithinBounds ==
    /\ call.op = "identify_contradiction"
          => \A i \in DOMAIN call.result.contradictions :
                InUnitInterval(call.result.contradictions[i].confidence_score)
    /\ SelectorCall
          => /\ \A i \in DOMAIN call.result.relevance_score :
                    InUnitInterval(call.result.relevance_score[i])
             /\ \A i \in DOMAIN call.result.recommendations :
                    InUnitInterval(call.result.recommendations[i].relevance_score)
    /\ call.op = "find_effects_for_principles"
          => \A i \in DOMAIN call.result : InUnitInterval(call.result[i].relevance_score)
    /\ call.op = "find_effects_for_contradiction"
          => \A r \in call.result : InUnitInterval(r.relevance_score)
    /\ call.op = "_calculate_adaptation_confidence"
          => Pct(10) <= call.result /\ call.result <= One

\* An adaptation confidence that the clamp brought down to 1.0.
C10_Witness ==
    /\ call.op = "_calculate_adaptation_confidence"
    /\ ConfidenceUnclamped(call.args[1], call.args[2]) > One
    /\ call.result = One

RepeatableOps == {"select_principles", "find_effects_for_principles", "adapt_concepts"}

\* The component a call of op was made on, as it is now.
ComponentOf(op) ==
    IF op = "select_principles" THEN selector
    ELSE IF op = "find_effects_for_principles" THEN lookup
    ELSE planner

ConfidenceCall == call.op = "_calculate_adaptation_confidence"

\* The number of 0.2 steps the claim adds to 0.5: one for each medium field,
\* minus one for each penalty.
ConfidenceSteps(concept, context) ==
    Cardinality({f \in {"budget_level", "timeline", "technical_expertise"} :
                    context[f] = "medium"})
      - (IF context.budget_level = "low" /\ concept.estimated_complexity = "High"
         THEN 1 ELSE 0)
      - (IF context.timeline = "short" /\ concept.innovation_level = "Breakthrough"
         THEN 1 ELSE 0)

\* C12: the adaptation confidence is 0.5 plus 0.2 for each of budget_level,
\* timeline and technical_expertise that is medium, minus 0.2 for a low
\* budget with a High complexity, minus 0.2 for a short timeline with a
\* Breakthrough innovation level, clamped to [0.1, 1.0]; a context medium in
\* all three fields gives exactly 1.0.
C12_AdaptationConfidence ==
    ConfidenceCall
        => LET concept == call.args[1]
               context == call.args[2]
               sum == Pct(50) + Pct(20) * ConfidenceSteps(concept, context)
           IN /\ call.result = IF sum < Pct(10) THEN Pct(10)
                               ELSE IF sum > Pct(100) THEN Pct(100)
                               ELSE sum
              /\ (context.budget_level = "medium" /\ context.timeline = "medium"
                     /\ context.technical_expertise = "medium")
                    => call.result = Pct(100)

\* The all-medium context of the scenario: 1.1 clamped to 1.0, the High
\* complexity costing nothing as the budget is not low.
C12_Witness ==
    /\ ConfidenceCall
    /\ call.args[2].budget_level = "medium"
    /\ call.args[2].timeline = "medium"
    /\ call.args[2].technical_expertise = "medium"
    /\ call.args[1].estimated_complexity = "High"
    /\ call.result = Pct(100)

ParseCall == call.op = "parse"

\* The vocabulary groups of the technical system, in the listed order.
SystemGroups ==
    << {<<"c", "a", "r">>, <<"v", "e", "h", "i", "c", "l", "e">>, <<"a", "u", "t", "o", "m", "o", "b", "i", "l", "e">>},
       {<<"e", "n", "g", "i", "n", "e">>, <<"m", "o", "t", "o", "r">>},
       {<<"m", "a", "c", "h", "i", "n", "e">>, <<"d", "e", "v", "i", "c", "e">>, <<"s", "y", "s", "t", "e", "m">>} >>

Occurring(words, text) == {w \in words : Contains(w, text)}

\* C13: extraction is first match in listed order, not in input order: the
\* technical system is a token of the first vocabulary group with a token
\* anywhere in the normalized text, the desired improvement is the first
\* keyword of the improvement list that occurs in the text, and the domain
\* is automotive whenever an automotive word occurs, else manufacturing,
\* else general; the sample problem gives the system "car", an improvement
\* from the vocabulary, a non-empty consequence and the domain automotive.
C13_FirstMatchInListedOrder ==
    ParseCall
        => LET res == call.result
               text == res.normalized_description
               groups == {g \in DOMAIN SystemGroups : Occurring(SystemGroups[g], text) # {}}
               keywords == {k \in DOMAIN improvement_keywords :
                               Contains(improvement_keywords[k], text)}
           IN /\ IF groups = {} THEN res.technical_system = None
                 ELSE \E g \in groups :
                         /\ \A h \in groups : g <= h
                         /\ \E w \in Occurring(SystemGroups[g], text) :
                               res.technical_system = <<w>>
              /\ IF keywords = {} THEN res.desired_improvement = None
                 ELSE \E k \in keywords :
                         /\ \A j \in keywords : k <= j
                         /\ res.desired_improvement = <<improvement_keywords[k]>>
              /\ res.context.domain = "automotive"
                    => Occurring({<<"c", "a", "r">>, <<"v", "e", "h", "i", "c", "l", "e">>, <<"e", "n", "g", "i", "n", "e">>}, text) # {}
              /\ Occurring({<<"c", "a", "r">>, <<"v", "e", "h", "i", "c", "l", "e">>, <<"e", "n", "g", "i", "n", "e">>}, text) # {}
                    => res.context.domain = "automotive"
              /\ res.context.domain = "general"
                    => Occurring({<<"c", "a", "r">>, <<"v", "e", "h", "i", "c", "l", "e">>, <<"e", "n", "g", "i", "n", "e">>, <<"m", "a", "c", "h", "i", "n", "e">>, <<"m", "a", "n", "u", "f", "a", "c", "t", "u", "r", "i", "n", "g">>}, text) = {}
              /\ call.args[1] = sample_problem_text
                    => /\ res.technical_system = <<<<"c", "a", "r">>>>
                       /\ res.desired_improvement # None
                       /\ res.undesired_consequence # None
                       /\ res.undesired_consequence[1] # <<>>
                       /\ res.context.domain = "automotive"

\* A text that names the engine before the car: the car is extracted.
C13_Witness ==
    /\ ParseCall
    /\ call.args[1] = <<"e", "n", "g", "i", "n", "e", " ", "a", " ", "C", "a", "r", " ">>
    /\ call.result.technical_system = <<<<"c", "a", "r">>>>

\* C14: parsing the empty string or a string of whitespace only returns a
\* ParsedProblem with the input as original_text, no technical system, no
\* desired improvement, no undesired consequence, no constraints and the
\* context {"domain": "general"}.
C14_EmptyInput ==
    (ParseCall /\ \A i \in DOMAIN call.args[1] : call.args[1][i] \in Whitespace)
        => /\ call.result.original_text = call.args[1]
           /\ call.result.technical_system = None
           /\ call.result.desired_improvement = None
           /\ call.result.undesired_consequence = None
           /\ call.result.constraints = <<>>
           /\ call.result.context = [domain |-> "general"]

\* The parse of a text of a space, a tab and a newline.
C14_Witness ==
    /\ ParseCall
    /\ call.args[1] = <<" ", "\t", "\n">>
    /\ call.result.original_text = <<" ", "\t", "\n">>
    /\ call.result.normalized_description = <<>>

AdapterCall == call.op \in {"generate", "chat"}

StartsWith(text, prefix) ==
    Len(text) >= Len(prefix) /\ SubSeq(text, 1, Len(prefix)) = prefix

\* The failures of an Ollama call: the client library is missing, the
\* transport fails, the server answers an error status, the body is not JSON,
\* or the JSON is not the object (for chat: with a message object) expected.
OllamaCallFailed ==
    \/ ~call.world.requests_installed
    \/ call.world.post.kind = "error"
    \/ /\ call.world.post.kind = "response"
       /\ \/ call.world.post.status_code >= 400
          \/ call.world.post.body.kind = "not_json"
          \/ /\ call.world.post.body.kind = "json"
             /\ \/ call.world.post.body.value.type # "object"
                \/ /\ call.op = "chat"
                   /\ call.world.post.body.value.type = "object"
                   /\ "message" \in DOMAIN call.world.post.body.value.fields
                   /\ call.world.post.body.value.fields.message.type # "object"

\* The failures of a Gemini call: the client cannot be initialized, the
\* request fails, or the reply carries no text.
GeminiCallFailed ==
    \/ ~_ensure_initialized(call.self_before, call.world).ok
    \/ call.world.reply.kind = "error"
    \/ call.world.reply.kind = "reply" /\ ~call.world.reply.text_available

ReportedAsErrorResponse ==
    /\ call.result.status = "returned"
    /\ StartsWith(call.result.value.content, <<"E", "r", "r", "o", "r", ":">>)
    /\ "error" \in DOMAIN call.result.value.metadata
    /\ call.result.requests_sent <= 1

\* C15: a generate or chat call of an adapter that fails (missing dependency,
\* failed client initialization, network or HTTP error, malformed or
\* unexpected response) does not raise: after at most one request it returns an
\* LLMResponse whose content starts with "Error:" and whose metadata has the
\* key "error".
C15_FailuresAreReturned ==
    AdapterCall =>
        /\ call.self_before.kind = "ollama" /\ OllamaCallFailed => ReportedAsErrorResponse
        /\ call.self_before.kind = "gemini" /\ GeminiCallFailed => ReportedAsErrorResponse

IdentifierCall == call.op = "identify_contradiction"

\* The two candidate pools of the call in progress.
ImprovementPool == _find_improvement_parameters(identifier, call.args[1])

WorseningPool == _find_worsening_parameters(identifier, call.args[2])

\* A pool holds each parameter once, with the largest score any captured
\* keyword gave it.
Deduplicated(pool, keywords) ==
    LET candidates == CandidatesOf(identifier, keywords)
    IN /\ \A i, j \in DOMAIN pool : pool[i].param_id = pool[j].param_id => i = j
       /\ {pool[i].param_id : i \in DOMAIN pool}
              = {candidates[k].param_id : k \in DOMAIN candidates}
       /\ \A i \in DOMAIN pool :
              /\ \E k \in DOMAIN candidates : candidates[k] = pool[i]
              /\ \A k \in DOMAIN candidates :
                     candidates[k].param_id = pool[i].param_id
                         => candidates[k].score <= pool[i].score

\* C16: identify_contradiction returns exactly the cross product of the two
\* deduplicated candidate pools minus the self-pairs: one contradiction for
\* every improvement candidate (i, si) and worsening candidate (w, sw) with
\* i # w, its confidence (si + sw) / 2, none with i = w, and nothing else.
C16_CrossProductWithoutSelfPairs ==
    IdentifierCall =>
        LET found == call.result.contradictions
            imp == ImprovementPool
            wors == WorseningPool
        IN /\ Deduplicated(imp, call.args[1])
           /\ Deduplicated(wors, call.args[2])
           /\ \A i \in DOMAIN imp, w \in DOMAIN wors :
                  imp[i].param_id # wors[w].param_id =>
                      /\ Cardinality({k \in DOMAIN found :
                             /\ found[k].improving_parameter = imp[i].param_id
                             /\ found[k].worsening_parameter = wors[w].param_id}) = 1
                      /\ \E k \in DOMAIN found :
                             /\ found[k].improving_parameter = imp[i].param_id
                             /\ found[k].worsening_parameter = wors[w].param_id
                             /\ 2 * found[k].confidence_score = imp[i].score + wors[w].score
           /\ \A k \in DOMAIN found :
                  /\ found[k].improving_parameter # found[k].worsening_parameter
                  /\ \E i \in DOMAIN imp, w \in DOMAIN wors :
                         /\ found[k].improving_parameter = imp[i].param_id
                         /\ found[k].worsening_parameter = wors[w].param_id

\* Both pools hold two parameters, one parameter is in both, a keyword was
\* captured twice with different scores for it, and contradictions were found.
C16_Witness ==
    /\ IdentifierCall
    /\ Len(ImprovementPool) >= 2
    /\ Len(WorseningPool) >= 2
    /\ \E i \in DOMAIN ImprovementPool, w \in DOMAIN WorseningPool :
           ImprovementPool[i].param_id = WorseningPool[w].param_id
    /\ Len(CandidatesOf(identifier, call.args[1])) > Len(ImprovementPool)
    /\ \E i \in DOMAIN ImprovementPool, w \in DOMAIN WorseningPool :
           ImprovementPool[i].score # WorseningPool[w].score
    /\ call.result.contradictions # <<>>

\* C17: the contradictions are in non-increasing order of confidence, the
\* primary contradiction is the first of them and is None exactly when there
\* are none, and the alternatives are the remaining ones whose confidence
\* exceeds 0.3, in the same order; when nothing matches, the list is empty and
\* the primary is None.
C17_SortedPrimaryAlternatives ==
    IdentifierCall =>
        LET found == call.result.contradictions
            rest == SubSeq(found, 2, Len(found))
        IN /\ \A k \in 1..(Len(found) - 1) :
                  found[k].confidence_score >= found[k + 1].confidence_score
           /\ (call.result.primary_contradiction = None) <=> (found = <<>>)
           /\ found # <<>> =>
                  /\ call.result.primary_contradiction = <<found[1]>>
                  /\ \A k \in DOMAIN found :
                         found[k].confidence_score <= found[1].confidence_score
           /\ call.result.alternative_contradictions
                  = SelectSeq(rest, LAMBDA c : 10 * c.confidence_score > 3 * One)
           /\ (ImprovementPool = <<>> \/ WorseningPool = <<>>) =>
                  /\ found = <<>>
                  /\ call.result.primary_contradiction = None
                  /\ call.result.alternative_contradictions = <<>>

\* Three contradictions or more, whose pairs were met in another order than
\* that of their confidence.
C17_Witness ==
    /\ IdentifierCall
    /\ Len(call.result.contradictions) >= 3
    /\ call.result.contradictions # CrossPairs(ImprovementPool, WorseningPool)
    /\ call.result.alternative_contradictions # <<>>

\* C18: on the table of the 40 principles, select_principles for a pair that
\* is not a key of the contradiction matrix does not raise and returns a
\* result with matrix_source "heuristic" that recommends the principles 1, 2,
\* 3 and 7 when both parameters are physical and 15, 35, 36 and 16 otherwise;
\* matrix_source is "contradiction_matrix" exactly when the ordered pair is a
\* key of the matrix.
C18_HeuristicFallback ==
    (SelectorCall /\ DOMAIN selector.principles = 1..40) =>
        LET in_matrix == <<call.args[1], call.args[2]>> \in DOMAIN selector.contradiction_matrix
        IN /\ ~in_matrix =>
                  /\ call.result.status = "returned"
                  /\ call.result.matrix_source = "heuristic"
                  /\ RecommendedIds(call.result.recommendations)
                         = IF call.args[1] \in physical_params /\ call.args[2] \in physical_params
                           THEN {1, 2, 3, 7} ELSE {15, 35, 36, 16}
           /\ call.result.status = "returned" =>
                  (call.result.matrix_source = "contradiction_matrix" <=> in_matrix)

EffectsForPrinciplesCall == call.op = "find_effects_for_principles"

\* The principles an effect shares with the ids of the call in progress.
SharedPrinciples(effect) == Range(call.args[1]) \cap Range(related_principles[effect])

\* The relevance of an effect for the call in progress: the shared principles
\* over the number of ids given, averaged with the domain-match score when
\* domain keywords are given.
RelevanceForCall(effect) ==
    LET ratio == IF call.args[1] = <<>> THEN 0
                 ELSE (Cardinality(SharedPrinciples(effect)) * One) \div Len(call.args[1])
    IN IF call.args[2] # <<>>
       THEN (ratio + Min(Pct(30) * CountHits(applications[effect], call.args[2])
                             + Pct(20) * CountHits(technical_domains[effect], call.args[2]),
                         One)) \div 2
       ELSE ratio

SortedByRelevance(recs) ==
    /\ \A k \in 1..(Len(recs) - 1) : recs[k].relevance_score >= recs[k + 1].relevance_score
    /\ \A i, j \in DOMAIN recs : recs[i].effect = recs[j].effect => i = j
    /\ \A k \in DOMAIN recs : recs[k].relevance_score = RelevanceForCall(recs[k].effect)

\* C19 as stated: find_effects_for_principles returns exactly the catalog
\* effects whose relevance exceeds 0.2, by non-increasing relevance, an effect
\* that shares no principle included when its domain-match score makes its
\* relevance exceed 0.2.
C19_EveryEffectConsidered ==
    EffectsForPrinciplesCall =>
        /\ {call.result[k].effect : k \in DOMAIN call.result}
               = {e \in EffectIds : RelevanceForCall(e) > Pct(20)}
        /\ SortedByRelevance(call.result)

\* C19, amended: find_effects_for_principles returns exactly the catalog
\* effects that share a principle with the given ids and whose relevance
\* exceeds 0.2, by non-increasing relevance; an effect that shares no
\* principle is not returned, whatever its domain-match score.
C19_EffectsSharingAPrinciple ==
    EffectsForPrinciplesCall =>
        /\ {call.result[k].effect : k \in DOMAIN call.result}
               = {e \in EffectIds : SharedPrinciples(e) # {} /\ RelevanceForCall(e) > Pct(20)}
        /\ SortedByRelevance(call.result)

\* With domain keywords, effects that share a principle are returned and one
\* that shares none is left out although its domain-match score exceeds 0.4.
C19_Witness ==
    /\ EffectsForPrinciplesCall
    /\ call.args[2] # <<>>
    /\ call.result # <<>>
    /\ \E e \in EffectIds :
           /\ SharedPrinciples(e) = {}
           /\ _calculate_domain_match(e, call.args[2]) > Pct(40)
           /\ \A k \in DOMAIN call.result : call.result[k].effect # e

GeneratorCall == call.op = "generate_concepts"

\* The number of concepts the call in progress is to produce.
RequestedConcepts == Min(call.args[4], Len(call.args[1]) * Len(call.args[2]))

\* The result holds RequestedConcepts concepts, the one numbered i + 1 built
\* from principles[i mod |principles|] and effects[i mod |effects|]; the
\* primary concept is one of the highest innovation potential, None when
\* there are no concepts, and the alternatives are all the others.
ConceptsByCycling(result) ==
    LET principles == call.args[1]
        effects == call.args[2]
    IN /\ Len(result.concepts) = RequestedConcepts
       /\ \A i \in 0..(RequestedConcepts - 1) :
              \E k \in DOMAIN result.concepts :
                  /\ result.concepts[k].concept_id = ConceptId(i + 1)
                  /\ result.concepts[k].principles_used
                         = <<principles[(i % Len(principles)) + 1].id>>
                  /\ result.concepts[k].effects_used = <<effects[(i % Len(effects)) + 1].id>>
                  /\ \A j \in DOMAIN result.concepts :
                         result.concepts[j].concept_id = ConceptId(i + 1) => j = k
       /\ (principles = <<>> \/ effects = <<>>) =>
              result.concepts = <<>> /\ result.primary_concept = None
       /\ result.concepts # <<>> =>
              /\ result.primary_concept # None
              /\ \E k \in DOMAIN result.concepts :
                     /\ result.primary_concept = <<result.concepts[k]>>
                     /\ result.alternative_concepts
                            = SubSeq(result.concepts, 1, k - 1)
                                  \o SubSeq(result.concepts, k + 1, Len(result.concepts))
              /\ \A k \in DOMAIN result.concepts :
                     _assess_innovation_potential(result.concepts[k])
                         <= _assess_innovation_potential(result.primary_concept[1])

\* C20: generate_concepts raises no error and produces min(N, |principles| *
\* |effects|) concepts, the i-th generated one (i from 0) built from
\* principles[i mod |principles|] and effects[i mod |effects|] and numbered
\* i + 1 in its id; with an empty list of principles or effects there are no
\* concepts and the primary concept is None; otherwise the primary concept has
\* the highest innovation potential and the alternatives are all the others.
C20_ConceptsByCycling ==
    GeneratorCall =>
        IF call.result.status = "returned" THEN ConceptsByCycling(call.result) ELSE FALSE

AdaptCall == call.op = "adapt_concepts" /\ call.result.status = "returned"

\* The technical risk _assess_risks gives a context whose expertise is not
\* low.
TechnicalRiskIsLow(adapted) ==
    adapted.risk_assessment.technical \in {"Low", "Low - Sufficient expertise"}

\* The score of an adapted concept as the description of the selection gives
\* it.
DescribedScore(adapted, context) ==
    adapted.adaptation_confidence
      + (IF context.company_size = "startup" /\ Len(adapted.implementation_roadmap) <= 4
         THEN Pct(10) ELSE 0)
      + (IF context.company_size = "enterprise" /\ TechnicalRiskIsLow(adapted)
         THEN Pct(10) ELSE 0)

\* The recommended concept is the earliest adapted concept of the highest
\* described score, and None exactly when nothing was adapted.
RecommendedByScore(res, context) ==
    LET adapted == res.adapted_concepts
    IN /\ (res.recommended_concept = None) <=> (adapted = <<>>)
       /\ adapted # <<>> =>
              \E k \in DOMAIN adapted :
                  /\ res.recommended_concept = <<adapted[k]>>
                  /\ \A j \in DOMAIN adapted :
                         DescribedScore(adapted[j], context)
                             <= DescribedScore(adapted[k], context)
                  /\ \A j \in 1..(k - 1) :
                         DescribedScore(adapted[j], context)
                             < DescribedScore(adapted[k], context)

\* The adapted concepts are the first min(num_adaptations, |concepts|) input
\* concepts in input order.
AdaptedInInputOrder(res, concepts, num_adaptations) ==
    /\ Len(res.adapted_concepts) = Min(num_adaptations, Len(concepts))
    /\ \A i \in DOMAIN res.adapted_concepts :
           /\ i \in DOMAIN concepts
           /\ res.adapted_concepts[i].original_concept_id = concepts[i].concept_id

\* C21: the recommended concept of adapt_concepts is the adapted concept with
\* the highest score (adaptation confidence, + 0.1 for a startup with a
\* roadmap of at most 4 steps, + 0.1 for an enterprise with a Low technical
\* risk), the earliest one among equal scores; it is None exactly when no
\* concept was adapted; and the adapted concepts are the first
\* min(num_adaptations, number of input concepts) input concepts in order.
C21_RecommendedConcept ==
    AdaptCall =>
        /\ \A i \in DOMAIN call.result.value.adapted_concepts :
               ContextFit(call.result.value.adapted_concepts[i], call.args[2])
                   = DescribedScore(call.result.value.adapted_concepts[i], call.args[2])
        /\ RecommendedByScore(call.result.value, call.args[2])
        /\ AdaptedInInputOrder(call.result.value, call.args[1], call.args[3])

\* The connective phrases that occur in text, by their place in the list.
ConnectivesIn(text) ==
    {k \in DOMAIN consequence_keywords : Contains(consequence_keywords[k], text)}

\* The first place in text where phrase occurs.
FirstOccurrence(phrase, text) ==
    CHOOSE i \in 1..Len(text) :
        /\ MatchesAt(phrase, text, i)
        /\ \A j \in 1..(i - 1) : ~MatchesAt(phrase, text, j)

\* What follows the first occurrence of phrase in text, trimmed and cut to 50
\* characters.
ConsequenceAfter(phrase, text) ==
    LET rest == Strip(SubSeq(text, FirstOccurrence(phrase, text) + Len(phrase), Len(text)))
    IN SubSeq(rest, 1, Min(50, Len(rest)))

\* C22 as stated: the undesired consequence is the text after the connective
\* phrase that occurs earliest in the normalized text, trimmed and cut to 50
\* characters, and None exactly when no connective phrase occurs.
C22_AfterEarliestConnective ==
    ParseCall =>
        LET text == call.result.normalized_description
            found == ConnectivesIn(text)
        IN IF found = {} THEN call.result.undesired_consequence = None
           ELSE \E k \in found :
                    /\ \A j \in found :
                           FirstOccurrence(consequence_keywords[k], text)
                               <= FirstOccurrence(consequence_keywords[j], text)
                    /\ call.result.undesired_consequence
                           = <<ConsequenceAfter(consequence_keywords[k], text)>>

\* C22: the undesired consequence is the text after the first occurrence of
\* the connective phrase that comes first in the list (but, however, causes,
\* results in, leads to, at the cost of, unfortunately, downside) among those
\* occurring in the normalized text, trimmed and cut to 50 characters, and
\* None exactly when no connective phrase occurs.
C22_AfterFirstListedConnective ==
    ParseCall =>
        LET text == call.result.normalized_description
            found == ConnectivesIn(text)
        IN IF found = {} THEN call.result.undesired_consequence = None
           ELSE \E k \in found :
                    /\ \A j \in found : k <= j
                    /\ call.result.undesired_consequence
                           = <<ConsequenceAfter(consequence_keywords[k], text)>>

\* A text with "however" before "but": the consequence is what follows "but".
C22_Witness ==
    /\ ParseCall
    /\ call.args[1] = two_connectives_text
    /\ call.result.undesired_consequence = <<<<"c", "h", "e", "a", "p">>>>

ReportCall == call.op = "build_report"

\* The upstream results of a run that found nothing: no primary
\* contradiction (and a context, if one is passed, that is a dict), no
\* principle results, effects or concepts, and an adaptation result without
\* context, adapted concepts or recommended concept.
DegenerateResults ==
    /\ ~Truthy(Get(call.args[2], "primary_contradiction", PyNone))
    /\ Get(call.args[2], "context", PyDict(EmptyDict)).type = "dict"
    /\ call.args[3] = <<>>
    /\ call.args[4] = <<>>
    /\ call.args[5] = <<>>
    /\ "context" \notin DOMAIN call.args[6]
    /\ Get(call.args[6], "adapted_concepts", <<>>) = <<>>
    /\ ~Truthy(Get(call.args[6], "recommended_concept", PyNone))

SectionTitles ==
    <<"Problem Analysis", "Technical Contradiction Analysis", "Recommended TRIZ Principles",
      "Scientific Effects Integration", "Solution Concepts", "Context-Adapted Solutions">>

ClosingStatements ==
    <<"TRIZ methodology provides systematic approach to inventive problem solving.",
      "Scientific effects integration enhances solution creativity and feasibility.",
      "Context adaptation ensures practical implementation within constraints.">>

ConditionalSteps ==
    {"Prioritize quick wins and immediate benefits",
     "Focus on cost-effective implementation options"}

NumberedSteps ==
    <<"1. Review the recommended solution concept in detail",
      "2. Assess resource requirements and timeline feasibility",
      "3. Develop detailed implementation plan with milestones",
      "4. Create prototype or pilot program",
      "5. Test and validate the solution in real-world conditions",
      "6. Monitor performance and iterate as needed">>

IsFixedStep(step) == step \notin ConditionalSteps

\* Six sections in the fixed order, the three closing statements at the end
\* of the conclusions, and the six numbered steps in order with at most the
\* two conditional lines among them.
WellFormedReport(report) ==
    /\ [i \in DOMAIN report.sections |-> report.sections[i].title] = SectionTitles
    /\ Len(report.conclusions) >= 3
    /\ [i \in 1..3 |->
           report.conclusions[Len(report.conclusions) - 3 + i].text] = ClosingStatements
    /\ SelectSeq(report.next_steps, IsFixedStep) = NumberedSteps
    /\ Len(report.next_steps) <= 8

SyncCall == call.op = "sync"

\* The hash the sync state held for an English file before the call.
StoredBefore(f) == Get(call.self_before.sync_state.file_hashes, f, <<>>)

\* The English files whose content differs from the hash stored for them.
ModifiedEnglish ==
    {f \in CanonicalFiles(repo) :
        StoredBefore(f) # <<>> /\ StoredBefore(f) # _compute_file_hash(repo, f)}

\* The translation of an English file into a language: the document of the
\* same name below docs/<lang>, or the glossary of the language.
Counterpart(f, lang) ==
    IF f = glossary_en
    THEN IF lang = "zh" THEN <<"i18n", "glossary_zh.yaml">>
         ELSE IF lang = "ru" THEN <<"i18n", "glossary_ru.yaml">>
         ELSE <<"i18n", "glossary_ar.yaml">>
    ELSE [i \in DOMAIN f |-> IF i = 2 THEN lang ELSE f[i]]

ExistingCounterparts ==
    {<<f, lang>> \in ModifiedEnglish \X {"zh", "ru", "ar"} :
        Counterpart(f, lang) \in repo.translations}

\* The saved state holds the hash of every English file.
SavedStateIsCurrent ==
    /\ repo.state_file # <<>>
    /\ \A f \in CanonicalFiles(repo) :
           Get(repo.state_file[1].file_hashes, f, <<>>) = _compute_file_hash(repo, f)

\* A sync that starts from the hashes of the files as they are detects
\* nothing.
NothingDetectedWithoutChanges ==
    (\A f \in CanonicalFiles(repo) : StoredBefore(f) = _compute_file_hash(repo, f))
        => call.result.changes.new = {} /\ call.result.changes.modified = {}

\* C24: when sync() finds the hash of an English file different from the
\* stored one, it marks every existing zh, ru or ar counterpart of that file
\* as outdated, so the number marked is the number of existing translations
\* of the modified English files; afterwards the saved state holds the new
\* hashes, and a sync without file changes detects no change.
C24_OutdatedTranslationsMarked ==
    (SyncCall /\ call.result.status = "returned") =>
        /\ ModifiedEnglish # {} =>
               call.result.marked = <<Cardinality(ExistingCounterparts)>>
        /\ SavedStateIsCurrent
        /\ NothingDetectedWithoutChanges

(***************************************************************************)
(* C25.  Callers inside load_* of one loader at the same time.             *)
(***************************************************************************)
\* The table a complete read of the field's file builds.
CompleteTable(fs, field) ==
    IF field = "contradiction_matrix" THEN BuildMatrix(EmptyDict, fs.matrix.rows)
    ELSE DictById(FileOf(fs, field).entries)

EveryCallerGetsCompleteTable ==
    \A t \in Threads :
        threads[t].outcome.status = "returned"
            => threads[t].outcome.value = CompleteTable(files, threads[t].outcome.field)

CacheNeverPartial ==
    \A field \in TableFields :
        cache[SharedLoader][field].loaded
            => cache[SharedLoader][field].data = CompleteTable(files, field)

PopulatedCacheKept ==
    \A field \in TableFields :
        cache[SharedLoader][field].loaded
            => cache'[SharedLoader][field] = cache[SharedLoader][field]

\* C25: with several callers inside load_* of one loader, every caller that
\* returns gets the completely built table, the cached attribute never holds
\* a partly built table, and a populated attribute is never replaced by other
\* content nor reset.
C25_ConcurrentLoadsSafe ==
    /\ [](EveryCallerGetsCompleteTable /\ CacheNeverPartial)
    /\ [][PopulatedCacheKept]_vars

\* Both callers found the matrix unset, both read the two-row file, and both
\* have returned.
C25_Witness ==
    /\ Len(files.matrix.rows) = 2
    /\ reads.matrix = 2
    /\ \A t \in Threads :
          /\ threads[t].outcome.status = "returned"
          /\ threads[t].outcome.field = "contradiction_matrix"

(***************************************************************************)
(* C26.  The split of a selection and the source of its principles.        *)
(***************************************************************************)
\* The score select_principles computed last, against the bound of the source
\* the principles came from.
ScoreWithinSourceBound ==
    (SelectorCall /\ call.result.relevance_score # <<>>)
        => IF <<call.args[1], call.args[2]>> \in DOMAIN selector.contradiction_matrix
           THEN call.result.relevance_score[1] >= Pct(80)
           ELSE call.result.relevance_score[1] <= Pct(65)

\* C26: a select_principles call that has a principle to recommend yields a
\* result with recommendations; when matrix_source is "contradiction_matrix"
\* each has relevance_score at least 0.8 and supporting_principles is empty,
\* when it is "heuristic" each has relevance_score at most 0.65 and
\* primary_principles is empty.
C26_SplitFollowsSource ==
    (SelectorCall /\ Range(ChosenIds) \cap DOMAIN selector.principles # {})
        => LET res == call.result
           IN /\ res.status = "returned"
              /\ res.recommendations # <<>>
              /\ res.matrix_source \in {"contradiction_matrix", "heuristic"}
              /\ res.matrix_source = "contradiction_matrix"
                    => /\ \A i \in DOMAIN res.recommendations :
                             res.recommendations[i].relevance_score >= Pct(80)
                       /\ res.supporting_principles = <<>>
              /\ res.matrix_source = "heuristic"
                    => /\ \A i \in DOMAIN res.recommendations :
                             res.recommendations[i].relevance_score <= Pct(65)
                       /\ res.primary_principles = <<>>

(***************************************************************************)
(* C27.  The pairs of principle and effect within one generation.          *)
(***************************************************************************)
NoRepeatedEntries(list) ==
    \A i, j \in DOMAIN list : list[i] = list[j] => i = j

\* C27: for principle and effect lists without repeated entries,
\* generate_concepts returns concepts no two of which use the same principle
\* together with the same effect.
C27_DistinctPairs ==
    (GeneratorCall /\ NoRepeatedEntries(call.args[1]) /\ NoRepeatedEntries(call.args[2])
       /\ call.result.status = "returned")
        => \A j, k \in DOMAIN call.result.concepts :
               (/\ call.result.concepts[j].principles_used
                       = call.result.concepts[k].principles_used
                /\ call.result.concepts[j].effects_used
                       = call.result.concepts[k].effects_used)
                   => j = k

(***************************************************************************)
(* C28.  The threshold on the alternative contradictions.                  *)
(***************************************************************************)
\* C28: every candidate of identify_contradiction has a score of at least
\* 0.5, so every contradiction has a confidence_score of at least 0.5 and the
\* alternatives are the contradictions without the first one.
C28_ThresholdExcludesNothing ==
    IdentifierCall =>
        LET found == call.result.contradictions
        IN /\ \A k \in DOMAIN ImprovementPool : ImprovementPool[k].score >= Pct(50)
           /\ \A k \in DOMAIN WorseningPool : WorseningPool[k].score >= Pct(50)
           /\ \A k \in DOMAIN found : found[k].confidence_score >= Pct(50)
           /\ call.result.alternative_contradictions = SubSeq(found, 2, Len(found))
           /\ call.result.primary_contradiction \o call.result.alternative_contradictions
                  = found

\* Two contradictions or more, the last one of two candidates that matched
\* by edit distance only: confidence 0.5, the lowest there is.
C28_Witness ==
    /\ IdentifierCall
    /\ Len(call.result.contradictions) >= 2
    /\ call.result.contradictions[Len(call.result.contradictions)].confidence_score = Pct(50)
    /\ Len(call.result.alternative_contradictions) = Len(call.result.contradictions) - 1

(***************************************************************************)
(* C29.  A load that fails, and the load after the file is put right.      *)
(***************************************************************************)
LoadOps ==
    [parameters |-> "load_39_parameters", principles |-> "load_40_principles",
     contradiction_matrix |-> "load_contradiction_matrix"]

\* The step is a call of the load operation of the field: the files stay, and
\* the result is that of the operation.
LoadStep(field) == files' = files /\ kbres'.op = LoadOps[field]

FailedLoadLeavesCache ==
    \A field \in TableFields :
        (LoadStep(field) /\ kbres'.status = "raised")
            => /\ cache' = cache
               /\ ~cache["loaderA"][field].loaded

LoadOfValidFileSucceeds ==
    \A field \in TableFields :
        (LoadStep(field) /\ ValidFile(files, field))
            => /\ kbres'.status = "returned"
               /\ kbres'.value = CompleteTable(files, field)
               /\ cache'["loaderA"][field] = Cached(CompleteTable(files, field))
               /\ ~cache["loaderA"][field].loaded
                     => reads'[ReadsOf(field)] = reads[ReadsOf(field)] + 1
               /\ \A other \in TableFields \ {field} :
                     cache'["loaderA"][other] = cache["loaderA"][other]

\* C29: a load that fails leaves the loader's cached tables as they were, the
\* failed table unset; no partly read table is ever cached; and a load of a
\* table whose file is valid reads the file, when the table is unset, and
\* returns the complete table.
C29_FailedLoadLeavesCacheUnset ==
    /\ []CacheNeverPartial
    /\ [][FailedLoadLeavesCache /\ LoadOfValidFileSucceeds]_vars

\* The matrix file held a row that did not parse when it was first read; it
\* was put right, read a second time and the matrix returned.
C29_Witness ==
    /\ log = [op |-> "repair", field |-> "contradiction_matrix", was |-> "ok"]
    /\ reads.matrix = 2
    /\ files.matrix.rows # <<>>
    /\ kbres.op = "load_contradiction_matrix"
    /\ kbres.status = "returned"
    /\ kbres.value = BuildMatrix(EmptyDict, files.matrix.rows)
    /\ ~kbres.noread

(***************************************************************************)
(* C30.  The technical system and the domain of one parse.                 *)
(***************************************************************************)
VehicleTokens == {<<"c", "a", "r">>, <<"v", "e", "h", "i", "c", "l", "e">>, <<"a", "u", "t", "o", "m", "o", "b", "i", "l", "e">>}

\* C30: whenever parse gives a technical_system that is car, vehicle or
\* automobile, the domain of its context is "automotive".
C30_VehicleMeansAutomotive ==
    (ParseCall /\ call.result.technical_system # None
       /\ call.result.technical_system[1] \in VehicleTokens)
        => call.result.context.domain = "automotive"

====
